---- MODULE Spec2Model ----
(***************************************************************************)
(* State-machine model of DeterministicPDFParser                           *)
(* (src/app/agents/parsers/deterministic_parser.py): the image store, the  *)
(* region classifier, the significance filter, the page analyzer, the      *)
(* block compositor and the document serializer.                           *)
(***************************************************************************)
EXTENDS Integers, Sequences, FiniteSets, TLC

\* ------------------------------------------------------------- bounds
\* Longest document (pages), number of distinct rendered pixel contents,
\* and number of parse runs over one output directory.
MaxPages == 2
NumContent == 2
MaxRuns == 2

\* ---------------------------------------------------- program constants
MinTableWidth == 50
MinTableHeight == 20
MinGridDim == 2
HeaderBandPct == 15
FooterBandPct == 85
MinVisualSide == 30
MaxAspect == 10
FullBleedWidthPct == 80
FullBleedHeightPct == 50
MinImageSide == 50
MaxPlainDrawings == 10
MinTextLen == 3
LeaderRunLen == 3
IdWidth == 3

\* Python's None (where an identifier or a string is expected)
None == <<"None">>

\* ------------------------------------------------------------ geometry
Rect(x0, y0, x1, y1) == [x0 |-> x0, y0 |-> y0, x1 |-> x1, y1 |-> y1]

Max(a, b) == IF a >= b THEN a ELSE b
Min(a, b) == IF a <= b THEN a ELSE b

\* fitz.Rect.width / .height: never negative
RectWidth(r) == Max(0, r.x1 - r.x0)
RectHeight(r) == Max(0, r.y1 - r.y0)

\* fitz.Rect.is_empty
RectIsEmpty(r) == r.x0 >= r.x1 \/ r.y0 >= r.y1

\* fitz.Rect.intersects: the two rectangles share a non-empty rectangle
Intersects(a, b) ==
    /\ ~RectIsEmpty(a)
    /\ ~RectIsEmpty(b)
    /\ ~RectIsEmpty(Rect(Max(a.x0, b.x0), Max(a.y0, b.y0),
                         Min(a.x1, b.x1), Min(a.y1, b.y1)))

\* any(table.intersects(r) for table in table_bboxes)
IntersectsAny(bboxes, r) == \E i \in 1..Len(bboxes) : Intersects(bboxes[i], r)

\* ------------------------------------------------------------ functions
Put(f, k, v) == [x \in DOMAIN f \cup {k} |-> IF x = k THEN v ELSE f[x]]
EmptyMap == [x \in {} |-> None]

\* ---------------------------------------------------------- image store
\* Rendered PNG bytes are told apart by a content number.
Png(c) == <<"png", c>>

\* the outcome of get_pixmap(...).tobytes("png"): the bytes, or an exception
Rendered(image_bytes) == [ok |-> TRUE, bytes |-> image_bytes]
RenderError == [ok |-> FALSE, bytes |-> <<"png", 0>>]

\* Image.open(BytesIO(image_bytes)) written by img.save: the picture
\* encoded anew, not the bytes that came in
SavedPng(image_bytes) == <<"saved", image_bytes[2]>>

\* hashlib.md5(image_bytes).hexdigest(): equal bytes give equal digests
Md5(image_bytes) == <<"md5", image_bytes[2]>>

DigitChar == <<"0", "1", "2", "3", "4", "5", "6", "7", "8", "9">>

\* str(n): the decimal digits of n, most significant first
RECURSIVE Digits(_)
Digits(n) ==
    IF n < 10 THEN <<DigitChar[n + 1]>>
    ELSE Append(Digits(n \div 10), DigitChar[(n % 10) + 1])

\* the format spec 03d: zero-padded to at least three digits, never cut
Pad03d(n) ==
    LET d == Digits(n)
    IN  [i \in 1..(Max(IdWidth, Len(d)) - Len(d)) |-> "0"] \o d

\* image_id = f"img_{self.image_counter:03d}"
ImageId(n) == <<"img_">> \o Pad03d(n)

\* image_path = os.path.join(self.images_dir, f"{image_id}.png")
ImagePath(image_id) == <<"images/">> \o image_id \o <<".png">>

HashKnownNever(hashes, image_hash) == FALSE
\* image_hash in self.unique_image_hashes
HashKnown(hashes, image_hash) == image_hash \in DOMAIN hashes

NextCounterStuck(counter) == counter
\* self.image_counter += 1
NextCounter(counter) == counter + 1

FreshCounterKept(old) == old
\* self.image_counter = 0
FreshCounter(old) == 0

FreshHashesKept(old) == old
\* self.unique_image_hashes = {}
FreshHashes(old) == EmptyMap

\* what a failed Image.open / img.save leaves of the store: nothing but the
\* counter that was advanced before the try block
FailedSaveEager(store, c, image_id, image_hash, page_num) ==
    [store EXCEPT !.counter = c,
                  !.images = Put(store.images, image_id,
                                 [path |-> ImagePath(image_id),
                                  first_seen_page |-> page_num]),
                  !.hashes = Put(store.hashes, image_hash, image_id)]
FailedSave(store, c, image_id, image_hash, page_num) ==
    [store EXCEPT !.counter = c]

KnownImageRestamped(store, image_hash, page_num) ==
    [store |-> [store EXCEPT
                  !.images[store.hashes[image_hash]].first_seen_page =
                      page_num],
     ret |-> store.hashes[image_hash]]
\* return self.unique_image_hashes[image_hash]
KnownImage(store, image_hash, page_num) ==
    [store |-> store, ret |-> store.hashes[image_hash]]

\* _save_image on store = [counter, images, hashes, files]; writable says
\* whether Image.open and img.save succeed for this call.  Returns the new
\* store and the returned identifier (None when the image is skipped).
SaveImage(store, image_bytes, page_num, writable) ==
    LET image_hash == Md5(image_bytes)
    IN  IF HashKnown(store.hashes, image_hash)
        THEN KnownImage(store, image_hash, page_num)
        ELSE LET c == NextCounter(store.counter)
                 image_id == ImageId(c)
                 image_path == ImagePath(image_id)
             IN  IF writable
                 THEN [store |->
                         [counter |-> c,
                          images |-> Put(store.images, image_id,
                                         [path |-> image_path,
                                          first_seen_page |-> page_num]),
                          hashes |-> Put(store.hashes, image_hash, image_id),
                          files |-> Put(store.files, image_path,
                                        SavedPng(image_bytes))],
                       ret |-> image_id]
                 ELSE [store |-> FailedSave(store, c, image_id, image_hash,
                                            page_num),
                       ret |-> None]

\* ------------------------------------------------------ region classifier
\* a table candidate's extracted grid: rows x cols cells
Grid(rows, cols) == [i \in 1..rows |-> [j \in 1..cols |-> "cell"]]

IsValidTableLoose(table_obj) ==
    LET width == table_obj.bbox.x1 - table_obj.bbox.x0
        height == table_obj.bbox.y1 - table_obj.bbox.y0
        extracted_data == table_obj.grid
        num_rows == Len(extracted_data)
        num_cols == IF num_rows > 0 THEN Len(extracted_data[1]) ELSE 0
    IN  /\ ~(width <= MinTableWidth \/ height < MinTableHeight)
        /\ extracted_data # <<>>
        /\ ~(num_rows < MinGridDim /\ num_cols < MinGridDim)
\* _is_valid_table
IsValidTable(table_obj) ==
    LET width == table_obj.bbox.x1 - table_obj.bbox.x0
        height == table_obj.bbox.y1 - table_obj.bbox.y0
        extracted_data == table_obj.grid
        num_rows == Len(extracted_data)
        num_cols == IF num_rows > 0 THEN Len(extracted_data[1]) ELSE 0
    IN  /\ ~(width < MinTableWidth \/ height < MinTableHeight)
        /\ extracted_data # <<>>
        /\ ~(num_rows < MinGridDim /\ num_cols < MinGridDim)

\* ---------------------------------------------------- significance filter
\* the thresholds page_height * 0.15 etc. are compared in hundredths
IsSignificantVisualLoose(rect, page_height, page_width) ==
    /\ ~(100 * rect.y1 < HeaderBandPct * page_height)
    /\ ~(100 * rect.y0 > FooterBandPct * page_height)
    /\ ~(RectWidth(rect) < MinVisualSide \/ RectHeight(rect) < MinVisualSide)
    /\ ~(RectHeight(rect) > 0
         /\ RectWidth(rect) >= MaxAspect * RectHeight(rect))
    /\ ~(RectWidth(rect) > 0
         /\ RectHeight(rect) >= MaxAspect * RectWidth(rect))
    /\ ~(100 * RectWidth(rect) > FullBleedWidthPct * page_width
         /\ 100 * RectHeight(rect) > FullBleedHeightPct * page_height)
\* _is_significant_visual
IsSignificantVisual(rect, page_height, page_width) ==
    /\ ~(100 * rect.y1 < HeaderBandPct * page_height)
    /\ ~(100 * rect.y0 > FooterBandPct * page_height)
    /\ ~(RectWidth(rect) < MinVisualSide \/ RectHeight(rect) < MinVisualSide)
    /\ ~(RectHeight(rect) > 0
         /\ RectWidth(rect) > MaxAspect * RectHeight(rect))
    /\ ~(RectWidth(rect) > 0
         /\ RectHeight(rect) > MaxAspect * RectWidth(rect))
    /\ ~(100 * RectWidth(rect) > FullBleedWidthPct * page_width
         /\ 100 * RectHeight(rect) > FullBleedHeightPct * page_height)

\* an entry of get_drawings(): its rect, or one fitz.Rect cannot normalise
Drawing(r) == [ok |-> TRUE, rect |-> r]
BadDrawing == [ok |-> FALSE, rect |-> Rect(0, 0, 0, 0)]
\* an entry of get_images(): the rects get_image_rects(xref) returns, or an
\* exception raised by it
EmbeddedImage(rects) == [ok |-> TRUE, rects |-> rects]
BrokenImage == [ok |-> FALSE, rects |-> <<>>]

\* the drawings loop: drawings that are well formed, touch no saved table
\* and pass the filter
SignificantDrawings(fitz_page, table_bboxes) ==
    Cardinality({i \in 1..Len(fitz_page.drawings) :
        /\ fitz_page.drawings[i].ok
        /\ ~IntersectsAny(table_bboxes, fitz_page.drawings[i].rect)
        /\ IsSignificantVisual(fitz_page.drawings[i].rect,
                               RectHeight(fitz_page.rect),
                               RectWidth(fitz_page.rect))})

\* img_rects of the i-th embedded image ([] when get_image_rects raised)
ImageRects(fitz_page, i) ==
    IF fitz_page.images[i].ok THEN fitz_page.images[i].rects ELSE <<>>

\* the images loop: rectangles of embedded images that touch no saved
\* table, are larger than 50 x 50 and pass the filter
SignificantImages(fitz_page, table_bboxes) ==
    Cardinality({p \in UNION {{<<i, j>> : j \in 1..Len(ImageRects(fitz_page, i))} :
                              i \in 1..Len(fitz_page.images)} :
        LET r == ImageRects(fitz_page, p[1])[p[2]]
        IN  /\ ~IntersectsAny(table_bboxes, r)
            /\ RectWidth(r) > MinImageSide
            /\ RectHeight(r) > MinImageSide
            /\ IsSignificantVisual(r, RectHeight(fitz_page.rect),
                                   RectWidth(fitz_page.rect))})

\* _has_complex_visuals
HasComplexVisuals(fitz_page, table_bboxes) ==
    \/ SignificantImages(fitz_page, table_bboxes) > 0
    \/ SignificantDrawings(fitz_page, table_bboxes) > MaxPlainDrawings

\* ------------------------------------------------------------ text
\* strings are sequences of one-character strings
IsLeader(ch) == ch \in {".", "_", "-"}
IsSpace(ch) == ch \in {" ", "\t", "\n"}

\* length of the run of leader characters that starts at s[i]
RECURSIVE LeaderRun(_, _)
LeaderRun(s, i) ==
    IF i > Len(s) \/ ~IsLeader(s[i]) THEN 0 ELSE 1 + LeaderRun(s, i + 1)

\* length of the run of whitespace that starts at s[i]
RECURSIVE SpaceRun(_, _)
SpaceRun(s, i) ==
    IF i > Len(s) \/ ~IsSpace(s[i]) THEN 0 ELSE 1 + SpaceRun(s, i + 1)

\* re.sub(r"[\._-]{3,}", " ", text)
RECURSIVE SubLeaders(_, _)
SubLeaders(s, i) ==
    IF i > Len(s) THEN <<>>
    ELSE LET n == LeaderRun(s, i)
         IN  IF n >= LeaderRunLen THEN <<" ">> \o SubLeaders(s, i + n)
             ELSE IF n > 0 THEN SubSeq(s, i, i + n - 1) \o SubLeaders(s, i + n)
             ELSE <<s[i]>> \o SubLeaders(s, i + 1)

\* re.sub(r"\s+", " ", text)
RECURSIVE SubSpaces(_, _)
SubSpaces(s, i) ==
    IF i > Len(s) THEN <<>>
    ELSE LET n == SpaceRun(s, i)
         IN  IF n > 0 THEN <<" ">> \o SubSpaces(s, i + n)
             ELSE <<s[i]>> \o SubSpaces(s, i + 1)

\* str.strip()
RECURSIVE Strip(_)
Strip(s) ==
    IF s = <<>> THEN s
    ELSE IF IsSpace(s[1]) THEN Strip(Tail(s))
    ELSE IF IsSpace(s[Len(s)]) THEN Strip(SubSeq(s, 1, Len(s) - 1))
    ELSE s

\* _clean_text
CleanTextKeepShort(text) ==
    IF text = <<>> THEN None
    ELSE Strip(SubSpaces(SubLeaders(text, 1), 1))
CleanText(text) ==
    IF text = <<>> THEN None
    ELSE LET cleaned == Strip(SubSpaces(SubLeaders(text, 1), 1))
         IN  IF Len(cleaned) < MinTextLen THEN None ELSE cleaned

\* " ".join(span.get("text", "") for line in ... for span in ...)
RECURSIVE JoinSpans(_)
JoinSpans(spans) ==
    IF spans = <<>> THEN <<>>
    ELSE IF Len(spans) = 1 THEN spans[1]
    ELSE spans[1] \o <<" ">> \o JoinSpans(Tail(spans))

\* -------------------------------------------------------- block compositor
\* list.sort is stable: x goes behind every element whose key is <= its own
InsertByTopBeforeTies(sorted, x) ==
    LET k == Cardinality({i \in 1..Len(sorted) : sorted[i].top < x.top})
    IN  SubSeq(sorted, 1, k) \o <<x>> \o SubSeq(sorted, k + 1, Len(sorted))
InsertByTop(sorted, x) ==
    LET k == Cardinality({i \in 1..Len(sorted) : sorted[i].top <= x.top})
    IN  SubSeq(sorted, 1, k) \o <<x>> \o SubSeq(sorted, k + 1, Len(sorted))

SortByTopUnsorted(elements) == elements
\* combined_elements.sort(key=lambda x: x.get("top", 0))
RECURSIVE SortByTop(_)
SortByTop(elements) ==
    IF elements = <<>> THEN <<>>
    ELSE InsertByTop(SortByTop(SubSeq(elements, 1, Len(elements) - 1)),
                     elements[Len(elements)])

\* element.pop("top", None): the public block
StripTop(element) ==
    [type |-> element.type, content |-> element.content,
     image_id |-> element.image_id]

\* the transient layout of an element: its sort key and where it came from
LayoutOf(element) ==
    [type |-> element.type, top |-> element.top, bbox |-> element.bbox,
     src |-> element.src]

\* ------------------------------------------------------------ inputs
\* A document is what fitz and pdfplumber read from pdf_path: whether it
\* opens, its pages (each named by its number in the catalogue below), and
\* how many pages pdfplumber sees.  A page carries its
\* rectangle, the table candidates of find_tables() (bbox, extracted grid,
\* the outcome of rendering the crop, whether the crop can be saved), the
\* drawings, the embedded images, the outcome of rendering and saving the
\* whole page, and the blocks of get_text("dict").
PageRect == Rect(0, 0, 600, 800)

Table(bbox, grid, pix, writable) ==
    [bbox |-> bbox, grid |-> grid, pix |-> pix, writable |-> writable]
TextBlock(bbox, spans) == [type |-> 0, bbox |-> bbox, spans |-> spans]
ImageBlock(bbox) == [type |-> 1, bbox |-> bbox, spans |-> <<>>]
Visual(drawings, images, pix, writable) ==
    [drawings |-> drawings, images |-> images, pix |-> pix,
     writable |-> writable]
Page(tables, visual, blocks, text_ok) ==
    [rect |-> PageRect, tables |-> tables, drawings |-> visual.drawings,
     images |-> visual.images, pix |-> visual.pix,
     writable |-> visual.writable, blocks |-> blocks, text_ok |-> text_ok]
Document(openable, pages, plumber_pages) ==
    [openable |-> openable, pages |-> pages, plumber_pages |-> plumber_pages]

\* two tables, a table level with the upper one, and a candidate one unit
\* too narrow to be a table, of which no picture could be made
UpperTable(pix, writable) ==
    Table(Rect(50, 100, 350, 300), Grid(2, 3), pix, writable)
LowerTable(pix, writable) ==
    Table(Rect(50, 400, 350, 500), Grid(3, 2), pix, writable)
SideTable(pix, writable) ==
    Table(Rect(360, 100, 560, 300), Grid(2, 2), pix, writable)
NarrowCandidate ==
    Table(Rect(50, 100, 99, 130), Grid(2, 2), RenderError, FALSE)

\* the i-th list of table candidates find_tables() may return for a page:
\* none, one that cannot be saved, one that cannot be rendered, two in
\* reverse reading order, one of each content
NumTableLists == 4 + NumContent
TableList(i) ==
    IF i = 1 THEN <<>>
    ELSE IF i = 2 THEN <<UpperTable(Rendered(Png(1)), FALSE)>>
    ELSE IF i = 3 THEN <<UpperTable(RenderError, TRUE)>>
    ELSE IF i = 4 THEN <<LowerTable(Rendered(Png(NumContent)), TRUE),
                         UpperTable(Rendered(Png(1)), TRUE)>>
    ELSE <<UpperTable(Rendered(Png(i - 4)), TRUE)>>

\* native text blocks, not in reading order: one touching the upper table's
\* lower edge, one inside the upper table, one level with the lower table,
\* one too short to keep, an image block, one at the very top of the page,
\* one level with the first
PageText ==
    <<TextBlock(Rect(50, 300, 350, 320), <<<<"a", "b">>, <<"c">>>>),
      TextBlock(Rect(60, 110, 340, 130), <<<<"i", "n", "1">>>>),
      TextBlock(Rect(400, 400, 500, 420), <<<<"t", ".", ".", ".", "9">>>>),
      TextBlock(Rect(400, 600, 500, 620), <<<<"x", " ">>>>),
      ImageBlock(Rect(400, 200, 500, 300)),
      TextBlock(Rect(50, 0, 300, 20), <<<<" ", "t", "o", "p", " ">>>>),
      TextBlock(Rect(400, 300, 500, 320),
                <<<<"e", "n", "\t">>, <<"_", "-", ".", "\n", "d", ".", ".">>>>)>>

\* a text block whose glyph boxes reach above the upper edge of the page
RunningHead == TextBlock(Rect(50, -5, 300, 15), <<<<"h", "e", "a", "d">>>>)

NoVisual == Visual(<<>>, <<>>, Rendered(Png(1)), TRUE)
\* a page with one embedded figure and a decorative dot, and a drawing and
\* an image that cannot be read
Figure(pix, writable) ==
    Visual(<<Drawing(Rect(10, 10, 15, 15)), BadDrawing>>,
           <<BrokenImage, EmbeddedImage(<<Rect(400, 200, 500, 300)>>)>>,
           pix, writable)

\* an embedded image of 50 by 50 units in the body of the page
SmallFigure ==
    Visual(<<>>, <<EmbeddedImage(<<Rect(400, 200, 450, 250)>>)>>,
           Rendered(Png(NumContent)), TRUE)
\* n strokes of a diagram beside the tables, followed by other drawings
Sketch(n, others) ==
    Visual([i \in 1..n |-> Drawing(Rect(400, 400, 500, 500))] \o others,
           <<>>, Rendered(Png(NumContent)), TRUE)
\* a stroke of diagram size across the narrow candidate
StrokeOverNarrow == Drawing(Rect(40, 90, 110, 140))
\* a stroke of diagram size inside the upper table
StrokeInUpperTable == Drawing(Rect(100, 150, 200, 250))

\* the i-th page documents are made of.  The first NumCorePages make up
\* documents of any length: text with each list of table candidates, a
\* figure of each content, a figure that cannot be saved, a page whose text
\* cannot be read.  The others stand alone in one-page documents: a
\* rejected candidate under a sketch, a figure that cannot be rendered, an
\* empty page, a small embedded image, sketches around the drawing count,
\* a sketch over a saved table and over a table that cannot be saved, two
\* tables side by side under a sketch, a figure under a running head, a
\* figure of each content beside a table
NumCorePages == NumTableLists + NumContent + 2
NumPageInputs == NumCorePages + 10 + NumContent
PageInput(i) ==
    LET j == i - NumTableLists
        k == j - NumContent
    IN  IF j <= 0 THEN Page(TableList(i), NoVisual, PageText, TRUE)
        ELSE IF k <= 0
        THEN Page(<<>>, Figure(Rendered(Png(j)), TRUE), PageText, TRUE)
        ELSE IF k = 1
        THEN Page(<<>>, Figure(Rendered(Png(1)), FALSE), PageText, TRUE)
        ELSE IF k = 2 THEN Page(<<>>, NoVisual, PageText, FALSE)
        ELSE IF k = 3
        THEN Page(<<NarrowCandidate>>,
                  Visual([n \in 1..(MaxPlainDrawings + 1) |->
                            StrokeOverNarrow],
                         <<>>, Rendered(Png(1)), TRUE),
                  PageText, TRUE)
        ELSE IF k = 4
        THEN Page(<<>>, Figure(RenderError, TRUE), PageText, TRUE)
        ELSE IF k = 5 THEN Page(<<>>, NoVisual, <<>>, TRUE)
        ELSE IF k = 6 THEN Page(<<>>, SmallFigure, PageText, TRUE)
        ELSE IF k = 7
        THEN Page(<<>>, Sketch(MaxPlainDrawings, <<BadDrawing>>), PageText,
                  TRUE)
        ELSE IF k = 8
        THEN Page(<<>>, Sketch(MaxPlainDrawings + 1, <<BadDrawing>>),
                  PageText, TRUE)
        ELSE IF k = 9
        THEN Page(<<UpperTable(Rendered(Png(1)), TRUE)>>,
                  Sketch(MaxPlainDrawings, <<StrokeInUpperTable>>),
                  PageText, TRUE)
        ELSE IF k = 10
        THEN Page(<<UpperTable(Rendered(Png(1)), FALSE)>>,
                  Sketch(MaxPlainDrawings, <<StrokeInUpperTable>>),
                  PageText, TRUE)
        ELSE IF k = 11
        THEN Page(<<SideTable(Rendered(Png(NumContent)), TRUE),
                    UpperTable(Rendered(Png(1)), TRUE)>>,
                  Sketch(MaxPlainDrawings + 1, <<>>), PageText, TRUE)
        ELSE IF k = 12
        THEN Page(<<>>, Figure(Rendered(Png(1)), TRUE),
                  <<RunningHead>> \o PageText, TRUE)
        ELSE Page(<<UpperTable(Rendered(Png(1)), TRUE)>>,
                  Figure(Rendered(Png(k - 12)), TRUE), PageText, TRUE)

\* values around the classifier's and the filter's thresholds
ProbeTableWidths == <<49, 50, 51>>
ProbeTableHeights == <<19, 20, 30>>
ProbeGridDims == <<0, 1, 2>>
ProbeWidths == <<20, 29, 30, 300, 301, 480, 481>>
ProbeHeights == <<20, 29, 30, 300, 301, 400, 401>>
ProbeTops == <<80, 90, 200, 680, 681>>

\* the d-th digit (from 0) of n written with the radixes of the sequences
\* in dims, as an index into dims[d + 1]
RECURSIVE MixedDigit(_, _, _)
MixedDigit(n, dims, d) ==
    IF d = 0 THEN (n % Len(dims[1])) + 1
    ELSE MixedDigit(n \div Len(dims[1]), Tail(dims), d - 1)

ProbeTableDims ==
    <<ProbeTableWidths, ProbeTableHeights, ProbeGridDims, ProbeGridDims>>
ProbeVisualDims == <<ProbeWidths, ProbeHeights, ProbeTops>>
NumTableProbes ==
    Len(ProbeTableWidths) * Len(ProbeTableHeights) * Len(ProbeGridDims)
        * Len(ProbeGridDims)
NumVisualProbes == Len(ProbeWidths) * Len(ProbeHeights) * Len(ProbeTops)

\* the i-th page whose only table candidate sits on the classifier's
\* thresholds
TableProbe(i) ==
    LET w == ProbeTableWidths[MixedDigit(i - 1, ProbeTableDims, 0)]
        h == ProbeTableHeights[MixedDigit(i - 1, ProbeTableDims, 1)]
        r == ProbeGridDims[MixedDigit(i - 1, ProbeTableDims, 2)]
        c == ProbeGridDims[MixedDigit(i - 1, ProbeTableDims, 3)]
    IN  Page(<<Table(Rect(50, 100, 50 + w, 100 + h), Grid(r, c),
                     Rendered(Png(1)), TRUE)>>,
             NoVisual, PageText, TRUE)

\* the i-th page drawn with MaxPlainDrawings + 1 copies of one rectangle
\* that sits on the significance filter's thresholds
VisualProbe(i) ==
    LET w == ProbeWidths[MixedDigit(i - 1, ProbeVisualDims, 0)]
        h == ProbeHeights[MixedDigit(i - 1, ProbeVisualDims, 1)]
        y == ProbeTops[MixedDigit(i - 1, ProbeVisualDims, 2)]
    IN  Page(<<>>,
             Visual([k \in 1..(MaxPlainDrawings + 1) |->
                       Drawing(Rect(100, y, 100 + w, y + h))],
                    <<>>, Rendered(Png(1)), TRUE),
             PageText, TRUE)

\* every page a document can hold; a document names its pages by their
\* number in this catalogue
CataloguePage(i) ==
    IF i <= NumPageInputs THEN PageInput(i)
    ELSE IF i <= NumPageInputs + NumTableProbes
    THEN TableProbe(i - NumPageInputs)
    ELSE VisualProbe(i - NumPageInputs - NumTableProbes)
ProbePages ==
    (NumPageInputs + 1)..(NumPageInputs + NumTableProbes + NumVisualProbes)

\* the documents of the given pages: pdfplumber sees every page, or lacks
\* the last one when that page has table candidates
Plumbed(pages) ==
    {Document(TRUE, pages, n) :
        n \in {Len(pages)} \cup
              (IF CataloguePage(pages[Len(pages)]).tables # <<>>
               THEN {Len(pages) - 1} ELSE {})}

\* documents of 1..MaxPages core pages, one-page documents of every other
\* page, and a file that does not open
Documents ==
    UNION {Plumbed(pages) :
           pages \in UNION {[1..k -> 1..NumCorePages] : k \in 1..MaxPages}}
    \cup UNION {Plumbed(<<i>>) : i \in (NumCorePages + 1)..NumPageInputs}
    \cup {Document(TRUE, <<i>>, 1) : i \in ProbePages}
    \cup {Document(FALSE, <<>>, 0)}

\* ------------------------------------------------------------ state
VARIABLES
    doc,                  \* the document at pdf_path
    image_counter,        \* self.image_counter
    images,               \* self.images: image_id -> path, first_seen_page
    unique_image_hashes,  \* self.unique_image_hashes: hash -> image_id
    files,                \* the files of images_dir: path -> bytes
    md_file,              \* the markdown file of output_dir (None: absent)
    pc,                   \* where parse() stands
    structured_pages,     \* parse's structured_pages
    page_idx,             \* the page loop's page_idx
    table_idx,            \* position of the table loop (1-based)
    table_blocks,         \* _process_tables_as_images' table_blocks
    table_bboxes,         \* _process_tables_as_images' table_bboxes
    combined_elements,    \* parse's combined_elements
    result,               \* what parse() returned
    error,                \* what parse() raised
    run,                  \* number of parse() calls on this directory
    parses,               \* number of parse() calls on this parser
    layout,               \* per page of structured_pages: each block's
                          \* top, source bbox and source region
    calls,                \* the _save_image calls of this parser instance
    skipped,              \* regions of this run for which _save_image
                          \* returned None
    prev                  \* how the previous run ended

store_vars == <<image_counter, images, unique_image_hashes, files>>
page_vars == <<page_idx, table_idx, table_blocks, table_bboxes,
               combined_elements>>
vars == <<doc, image_counter, images, unique_image_hashes, files, md_file, pc,
          structured_pages, page_idx, table_idx, table_blocks, table_bboxes,
          combined_elements, result, error, run, parses, layout, calls, skipped,
          prev>>

\* The upload route and its background tasks (documents/routes.py,
\* documents/tasks.py)
VARIABLES
    requests,             \* the calls of upload_documents: user, files,
                          \* files handled so far, response sent, and the
                          \* background tasks added
    next_object_id,       \* the next _id insert_one gives out
    parsed_collection     \* the records of create_parsed_document

upload_vars == <<requests, next_object_id, parsed_collection>>

\* One call of MarkdownEnricher.process_type_1 (agents/image_parser_agent.py)
VARIABLES
    md_tokens,            \* content, cut where the pattern matches
    images_dir_files,     \* the file names under base_dir/images
    token_idx,            \* the token pattern.sub stands at (from 1)
    enriched,             \* what pattern.sub has produced so far
    analyses,             \* the calls of analyzer.analyze
    enricher_pc           \* "sub", "done" or "idle"

enricher_vars == <<md_tokens, images_dir_files, token_idx, enriched, analyses,
                   enricher_pc>>

\* everything outside the parser
\* process_document_pipeline for one document
VARIABLES
    task_args,            \* parsing_strategy and parsed_folder of the call
    task_pc,              \* where process_document_pipeline stands
    agent_idx,            \* the agent run_agent_pipeline stands at (from 1)
    parsed_record,        \* status and progress.step of the document's
                          \* record in parsed_collection
    progress_log,         \* every progress.step written, in order
    failed_steps          \* the steps that failed so far

task_vars == <<task_args, task_pc, agent_idx, parsed_record, progress_log,
               failed_steps>>

outer_vars == <<upload_vars, enricher_vars, task_vars>>

\* no upload is under way
UploadIdle ==
    /\ requests = <<>>
    /\ next_object_id = 1
    /\ parsed_collection = <<>>

\* no enrichment is under way
EnricherIdle ==
    /\ md_tokens = <<>>
    /\ images_dir_files = {}
    /\ token_idx = 1
    /\ enriched = <<>>
    /\ analyses = {}
    /\ enricher_pc = "idle"

\* create_parsed_document: "status": "uploading the document"
NewRecord == [status |-> "uploading the document", progress |-> None]

\* no pipeline task is under way
TaskIdle ==
    /\ task_args = [parsing_strategy |-> "fast", parsed_folder |-> None]
    /\ task_pc = "idle"
    /\ agent_idx = 1
    /\ parsed_record = NewRecord
    /\ progress_log = <<>>
    /\ failed_steps = {}

\* the image store as _save_image reads and writes it
Store ==
    [counter |-> image_counter, images |-> images,
     hashes |-> unique_image_hashes, files |-> files]

NoResult ==
    [returned |-> FALSE, pages |-> <<>>, images |-> EmptyMap,
     markdown_path |-> None, num_pages |-> 0]
NoRun == [pc |-> "none", result |-> NoResult, error |-> "none", parses |-> 0,
          hashes |-> EmptyMap, files |-> EmptyMap, skipped |-> {}]

\* __init__ followed by the call of parse()
Init ==
    /\ doc \in Documents
    /\ image_counter = FreshCounter(0)
    /\ images = EmptyMap
    /\ unique_image_hashes = FreshHashes(EmptyMap)
    /\ files = EmptyMap
    /\ md_file = None
    /\ pc = "open"
    /\ structured_pages = <<>>
    /\ page_idx = 0
    /\ table_idx = 1
    /\ table_blocks = <<>>
    /\ table_bboxes = <<>>
    /\ combined_elements = <<>>
    /\ result = NoResult
    /\ error = "none"
    /\ run = 1
    /\ parses = 1
    /\ layout = <<>>
    /\ calls = {}
    /\ skipped = {}
    /\ prev = NoRun
    /\ UploadIdle
    /\ EnricherIdle
    /\ TaskIdle

\* no parse is under way
ParserIdle ==
    /\ doc = Document(FALSE, <<>>, 0)
    /\ image_counter = 0
    /\ images = EmptyMap
    /\ unique_image_hashes = EmptyMap
    /\ files = EmptyMap
    /\ md_file = None
    /\ pc = "idle"
    /\ structured_pages = <<>>
    /\ page_idx = 0
    /\ table_idx = 1
    /\ table_blocks = <<>>
    /\ table_bboxes = <<>>
    /\ combined_elements = <<>>
    /\ result = NoResult
    /\ error = "none"
    /\ run = 1
    /\ parses = 1
    /\ layout = <<>>
    /\ calls = {}
    /\ skipped = {}
    /\ prev = NoRun

\* the page the loop is at
CurrentPage == CataloguePage(doc.pages[page_idx + 1])

RaiseSwallowed(e) ==
    /\ pc' = "markdown"
    /\ error' = e
\* except Exception as e: ... raise e
Raise(e) ==
    /\ pc' = "raised"
    /\ error' = e

\* the page loop's header: the next page, or the end of the loop
EnterPageZipped(idx) ==
    /\ page_idx' = idx
    /\ table_idx' = 1
    /\ table_blocks' = <<>>
    /\ table_bboxes' = <<>>
    /\ combined_elements' = <<>>
    /\ pc' = IF idx < doc.plumber_pages THEN "tables" ELSE "markdown"
EnterPage(idx) ==
    /\ page_idx' = idx
    /\ table_idx' = 1
    /\ table_blocks' = <<>>
    /\ table_bboxes' = <<>>
    /\ combined_elements' = <<>>
    /\ pc' = IF idx < Len(doc.pages) THEN "tables" ELSE "markdown"

\* ------------------------------------------------------------ parse()
Source(kind, index) == [kind |-> kind, index |-> index]

TablePlaceholderTextBare(image_id) ==
    <<"[Table Placeholder: Table detected. See image ">> \o <<"]">>
\* the f-strings of the two placeholder blocks
TablePlaceholderText(image_id) ==
    <<"[Table Placeholder: Table detected. See image ">> \o image_id \o <<"]">>
VisualPlaceholderText(image_id) ==
    <<"[Visual Context: Diagram detected. See full page image ">>
        \o image_id \o <<"]">>

TableElement(image_id, rect, k) ==
    [type |-> "table_placeholder", content |-> TablePlaceholderText(image_id),
     image_id |-> image_id, top |-> rect.y0, bbox |-> rect,
     src |-> Source("table", k)]
VisualElement(image_id, page_rect) ==
    [type |-> "visual_context_placeholder",
     content |-> VisualPlaceholderText(image_id),
     image_id |-> image_id, top |-> 0, bbox |-> page_rect,
     src |-> Source("page", 0)]
TextElement(clean_content, bbox, k) ==
    [type |-> "text", content |-> clean_content, image_id |-> None,
     top |-> bbox.y0, bbox |-> bbox, src |-> Source("text", k)]

Call(image_bytes, page_num, kind, ret) ==
    [bytes |-> image_bytes, page |-> page_num, kind |-> kind, ret |-> ret]

\* writes the store _save_image leaves behind
SetStore(st) ==
    /\ image_counter' = st.counter
    /\ images' = st.images
    /\ unique_image_hashes' = st.hashes
    /\ files' = st.files

\* fitz.open / pdfplumber.open, and the first pass through the loop header
OpenDocument ==
    /\ pc = "open"
    /\ IF doc.openable
       THEN /\ structured_pages' = <<>>
            /\ EnterPage(0)
            /\ UNCHANGED error
       ELSE /\ Raise("OpenError")
            /\ UNCHANGED <<structured_pages, page_vars>>
    /\ UNCHANGED <<outer_vars, doc, store_vars, md_file, result, run, parses, layout,
                   calls, skipped, prev>>

SkipCandidateExcluded(bboxes, table) == Append(bboxes, table.bbox)
\* if not self._is_valid_table(table): continue
SkipCandidate(bboxes, table) == bboxes

\* one pass of the loop over find_tables() in _process_tables_as_images
ProcessTable ==
    /\ pc = "tables"
    /\ page_idx < doc.plumber_pages
    /\ table_idx <= Len(CurrentPage.tables)
    /\ \E table \in {CurrentPage.tables[table_idx]} :
         IF ~IsValidTable(table)
         THEN /\ table_idx' = table_idx + 1
              /\ table_bboxes' = SkipCandidate(table_bboxes, table)
              /\ UNCHANGED <<store_vars, table_blocks, pc, error, calls,
                             skipped>>
         ELSE IF ~table.pix.ok
         THEN /\ Raise("RenderError")
              /\ UNCHANGED <<store_vars, table_idx, table_blocks,
                             table_bboxes, calls, skipped>>
         ELSE \E saved \in {SaveImage(Store, table.pix.bytes, page_idx + 1,
                                      table.writable)} :
              /\ SetStore(saved.store)
              /\ calls' = calls \cup {Call(table.pix.bytes, page_idx + 1,
                                           "table", saved.ret)}
              /\ table_idx' = table_idx + 1
              /\ IF saved.ret # None
                 THEN /\ table_blocks' =
                            Append(table_blocks,
                                   TableElement(saved.ret, table.bbox,
                                                table_idx))
                      /\ table_bboxes' = Append(table_bboxes, table.bbox)
                      /\ UNCHANGED skipped
                 ELSE /\ skipped' = skipped \cup
                            {<<page_idx + 1, Source("table", table_idx)>>}
                      /\ UNCHANGED <<table_blocks, table_bboxes>>
              /\ UNCHANGED <<pc, error>>
    /\ UNCHANGED <<outer_vars, doc, md_file, structured_pages, page_idx,
                   combined_elements, result, run, parses, layout, prev>>

\* the table loop is over (or pdfplumber has no such page):
\* combined_elements.extend(table_blocks)
CollectTables ==
    /\ pc = "tables"
    /\ ~(page_idx < doc.plumber_pages
          /\ table_idx <= Len(CurrentPage.tables))
    /\ combined_elements' = combined_elements \o table_blocks
    /\ pc' = "visuals"
    /\ UNCHANGED <<outer_vars, doc, store_vars, md_file, structured_pages, page_idx,
                   table_idx, table_blocks, table_bboxes, result, error, run,
                   parses, layout, calls, skipped, prev>>

\* if self._has_complex_visuals(...): capture the whole page
CaptureVisuals ==
    /\ pc = "visuals"
    /\ \E page \in {CurrentPage} :
         IF ~HasComplexVisuals(page, table_bboxes)
         THEN /\ pc' = "text"
              /\ UNCHANGED <<store_vars, combined_elements, error, calls,
                             skipped>>
         ELSE IF ~page.pix.ok
         THEN /\ Raise("RenderError")
              /\ UNCHANGED <<store_vars, combined_elements, calls, skipped>>
         ELSE \E saved \in {SaveImage(Store, page.pix.bytes, page_idx + 1,
                                      page.writable)} :
              /\ SetStore(saved.store)
              /\ calls' = calls \cup {Call(page.pix.bytes, page_idx + 1,
                                           "page", saved.ret)}
              /\ IF saved.ret # None
                 THEN /\ combined_elements' =
                            Append(combined_elements,
                                   VisualElement(saved.ret, page.rect))
                      /\ UNCHANGED skipped
                 ELSE /\ skipped' = skipped \cup
                            {<<page_idx + 1, Source("page", 0)>>}
                      /\ UNCHANGED combined_elements
              /\ pc' = "text"
              /\ UNCHANGED error
    /\ UNCHANGED <<outer_vars, doc, md_file, structured_pages, page_idx, table_idx,
                   table_blocks, table_bboxes, result, run, parses, layout,
                   prev>>

\* the loop over page.get_text("dict")["blocks"]: the text elements of the
\* blocks from the k-th on
RECURSIVE TextElements(_, _, _)
TextElements(blocks, bboxes, k) ==
    IF k > Len(blocks) THEN <<>>
    ELSE LET block == blocks[k]
             clean_content == CleanText(JoinSpans(block.spans))
         IN  (IF /\ block.type = 0
                 /\ ~IntersectsAny(bboxes, block.bbox)
                 /\ clean_content # None
              THEN <<TextElement(clean_content, block.bbox, k)>>
              ELSE <<>>)
             \o TextElements(blocks, bboxes, k + 1)

\* the text blocks, the sort, the pop of "top", structured_pages.append,
\* and the loop header
ComposePage ==
    /\ pc = "text"
    /\ \E page \in {CurrentPage} :
         IF ~page.text_ok
         THEN /\ Raise("TextError")
              /\ UNCHANGED <<structured_pages, page_vars, layout>>
         ELSE \E elements \in {SortByTop(combined_elements \o
                                 TextElements(page.blocks, table_bboxes, 1))} :
              /\ structured_pages' =
                    Append(structured_pages,
                           [page_number |-> page_idx + 1,
                            blocks |-> [i \in 1..Len(elements) |->
                                          StripTop(elements[i])]])
              /\ layout' = Append(layout, [i \in 1..Len(elements) |->
                                             LayoutOf(elements[i])])
              /\ EnterPage(page_idx + 1)
              /\ UNCHANGED error
    /\ UNCHANGED <<outer_vars, doc, store_vars, md_file, result, run, parses, calls,
                   skipped, prev>>

\* ------------------------------------------------------ document serializer
\* sep.join(lines)
RECURSIVE Join(_, _)
Join(sep, lines) ==
    IF lines = <<>> THEN <<>>
    ELSE IF Len(lines) = 1 THEN lines[1]
    ELSE lines[1] \o sep \o Join(sep, Tail(lines))

\* the md_lines of one page: heading, block contents, an empty line
PageLines(p) ==
    <<(<<"## Page ">> \o Digits(p.page_number))>>
        \o [i \in 1..Len(p.blocks) |-> p.blocks[i].content]
        \o <<<<>>>>

RECURSIVE MdLinesReversed(_)
MdLinesReversed(pages) ==
    IF pages = <<>> THEN <<>>
    ELSE MdLinesReversed(Tail(pages)) \o PageLines(pages[1])
RECURSIVE MdLines(_)
MdLines(pages) ==
    IF pages = <<>> THEN <<>>
    ELSE PageLines(pages[1]) \o MdLines(Tail(pages))

\* md_content = "\n\n".join(md_lines)
MdContent(pages) == Join(<<"\n\n">>, MdLines(pages))

\* str(Path(self.output_dir) / f"{stem}.md")
MdPath == <<"doc.md">>

ParseResultStrict(pages, image_map, md_path) ==
    [returned |-> TRUE,
     pages |-> IF md_path = None THEN <<>> ELSE pages,
     images |-> image_map,
     markdown_path |-> md_path,
     num_pages |-> IF md_path = None THEN 0 ELSE Len(pages)]
\* the dict of the return statement
ParseResult(pages, image_map, md_path) ==
    [returned |-> TRUE,
     pages |-> pages,
     images |-> image_map,
     markdown_path |-> md_path,
     num_pages |-> Len(pages)]

\* the markdown summary and the return statement; md_ok says whether
\* write_text succeeds
WriteMarkdown ==
    /\ pc = "markdown"
    /\ \E md_ok \in BOOLEAN :
        /\ md_file' = IF md_ok THEN MdContent(structured_pages) ELSE md_file
        /\ result' = ParseResult(structured_pages, images,
                                 IF md_ok THEN MdPath ELSE None)
    /\ pc' = "returned"
    /\ UNCHANGED <<outer_vars, doc, store_vars, structured_pages, page_vars, error, run,
                   parses, layout, calls, skipped, prev>>

\* ------------------------------------------------------------ reruns
Ended == pc \in {"returned", "raised"}

\* what is remembered of a run that ended
ThisRun ==
    [pc |-> pc, result |-> result, error |-> error, parses |-> parses,
     hashes |-> unique_image_hashes, files |-> files, skipped |-> skipped]

Restart ==
    /\ Ended
    /\ run < MaxRuns
    /\ run' = run + 1
    /\ prev' = ThisRun
    /\ pc' = "open"
    /\ result' = NoResult
    /\ error' = "none"
    /\ layout' = <<>>
    /\ skipped' = {}
    /\ structured_pages' = <<>>
    /\ UNCHANGED <<outer_vars, doc, files, md_file, page_vars>>

\* parse() is called again on the same parser
ParseAgain ==
    /\ Restart
    /\ parses' = parses + 1
    /\ UNCHANGED <<image_counter, images, unique_image_hashes, calls>>

\* a new DeterministicPDFParser on the same pdf_path and output_dir
\* (os.makedirs(..., exist_ok=True) keeps the files), and its parse()
NewParser ==
    /\ Restart
    /\ image_counter' = FreshCounter(image_counter)
    /\ images' = EmptyMap
    /\ unique_image_hashes' = FreshHashes(unique_image_hashes)
    /\ parses' = 1
    /\ calls' = {}

Next ==
    \/ OpenDocument
    \/ ProcessTable
    \/ CollectTables
    \/ CaptureVisuals
    \/ ComposePage
    \/ WriteMarkdown
    \/ ParseAgain
    \/ NewParser

Spec == Init /\ [][Next]_vars

\* ------------------------------------------------ upload route and tasks
\* Number of upload requests in flight together.
MaxUploads == 2

\* str(current_user["_id"]) and file.filename
Users == {"u1", "u2"}
Filenames == {"a.pdf", "b.pdf"}
\* the files of one request: one file, or two
FileLists ==
    {<<f>> : f \in Filenames} \cup {<<f, g>> : f \in Filenames, g \in Filenames}

BASE_DIR == "./app/documents/user_documents"
\* user_folder = f"{BASE_DIR}/{user_id}"
UserFolder(user_id) == <<BASE_DIR, "/", user_id>>
\* file_path = f"{user_folder}/{file.filename}"
FilePath(user_folder, filename) == user_folder \o <<"/", filename>>
\* os.path.abspath: the path under the working directory
Abspath(path) == <<"{cwd}/">> \o path
\* parsed_folder = os.path.abspath(f"{user_folder}/{file.filename}_parsed")
ParsedFolder(user_folder, filename) ==
    Abspath(user_folder \o <<"/", filename, "_parsed">>)

UploadRequest(user_id, file_list) ==
    [user_id |-> user_id, files |-> file_list, handled |-> 0,
     responded |-> FALSE, tasks |-> <<>>]
\* background_tasks.add_task(process_document_pipeline, document_id,
\* file_path, parsing_strategy, parsed_folder)
Task(document_id, file_path, parsed_folder) ==
    [document_id |-> document_id, file_path |-> file_path,
     parsed_folder |-> parsed_folder, status |-> "queued"]

UploadInit ==
    /\ requests \in UNION {[1..n -> {UploadRequest(u, fl) :
                                        u \in Users, fl \in FileLists}] :
                            n \in 1..MaxUploads}
    /\ next_object_id = 1
    /\ parsed_collection = <<>>
    /\ ParserIdle
    /\ EnricherIdle
    /\ TaskIdle

\* one pass of the loop over files in upload_documents
HandleFile(r) ==
    /\ ~requests[r].responded
    /\ requests[r].handled < Len(requests[r].files)
    /\ LET user_id == requests[r].user_id
           filename == requests[r].files[requests[r].handled + 1]
           user_folder == UserFolder(user_id)
           file_path == FilePath(user_folder, filename)
           document_id == next_object_id
           parsed_folder == ParsedFolder(user_folder, filename)
       IN  /\ next_object_id' = next_object_id + 1
           /\ parsed_collection' =
                 Append(parsed_collection,
                        [document_id |-> document_id, user_id |-> user_id,
                         parsed_folder |-> parsed_folder])
           /\ requests' =
                 [requests EXCEPT ![r].handled = @ + 1,
                                  ![r].tasks =
                                      Append(@, Task(document_id, file_path,
                                                     parsed_folder))]
    /\ UNCHANGED <<vars, enricher_vars, task_vars>>

\* upload_documents returns: the response goes out and the background
\* tasks of the request may run
SendResponse(r) ==
    /\ ~requests[r].responded
    /\ requests[r].handled = Len(requests[r].files)
    /\ requests' = [requests EXCEPT ![r].responded = TRUE]
    /\ UNCHANGED <<next_object_id, parsed_collection, vars, enricher_vars,
                   task_vars>>

TasksIn(r, status) ==
    {i \in 1..Len(requests[r].tasks) : requests[r].tasks[i].status = status}

\* the tasks of one request run one after the other, in the order they
\* were added: process_document_pipeline starts
StartTask(r) ==
    /\ requests[r].responded
    /\ TasksIn(r, "running") = {}
    /\ TasksIn(r, "queued") # {}
    /\ \E i \in TasksIn(r, "queued") :
         /\ \A j \in TasksIn(r, "queued") : i <= j
         /\ requests' = [requests EXCEPT ![r].tasks[i].status = "running"]
    /\ UNCHANGED <<next_object_id, parsed_collection, vars, enricher_vars,
                   task_vars>>

\* process_document_pipeline ends
FinishTask(r) ==
    /\ \E i \in TasksIn(r, "running") :
         requests' = [requests EXCEPT ![r].tasks[i].status = "done"]
    /\ UNCHANGED <<next_object_id, parsed_collection, vars, enricher_vars,
                   task_vars>>

UploadNext ==
    \/ \E r \in DOMAIN requests : HandleFile(r)
    \/ \E r \in DOMAIN requests : SendResponse(r)
    \/ \E r \in DOMAIN requests : StartTask(r)
    \/ \E r \in DOMAIN requests : FinishTask(r)

UploadSpec == UploadInit /\ [][UploadNext]_<<vars, outer_vars>>

\* ------------------------------------------------------ markdown enricher
\* Longest content, in lines of the markdown file.
MaxTokens == 2

\* The content is a sequence of lines: the parser's markdown puts every
\* block on a line of its own, and the pattern of process_type_1 matches
\* within one line.  A line is text the pattern does not match (plain, or a
\* bracketed tag that names no image) or a placeholder it matches, of
\* which the replacer reads the tag type and the file name.
ImageNames == {"img_001", "img_002"}
TagTypes == {"Visual Context", "Table Placeholder"}
TextLine(text) ==
    [matches |-> FALSE, tag_type |-> "", filename |-> "", text |-> text]
PlaceholderLine(tag_type, filename) ==
    [matches |-> TRUE, tag_type |-> tag_type, filename |-> filename,
     text |-> <<"[", tag_type, ": ... ", filename, "]">>]
Lines ==
    {TextLine(<<"Start the pump.">>),
     TextLine(<<"[Table Placeholder: pending]">>)}
        \cup {PlaceholderLine(t, f) : t \in TagTypes, f \in ImageNames}

\* for ext in ['.png', '.jpg', '.jpeg', '.tif', '.tiff']
TriedExtensions == <<".png", ".jpg", ".jpeg", ".tif", ".tiff">>
\* the extensions one image may be stored under in images/: none, the
\* first or the last one tried, two of them, one that is not tried
StoredExtensions ==
    {{}, {".png"}, {".tiff"}, {".jpg", ".tif"}, {".bmp"}}
ImageDirs ==
    {UNION {{<<f, e>> : e \in stored[f]} : f \in ImageNames} :
        stored \in [ImageNames -> StoredExtensions]}

\* the extension loop of the replacer from the k-th extension on: the
\* first path that exists, or None
RECURSIVE FindFrom(_, _, _)
FindFrom(filename, dir_files, k) ==
    IF k > Len(TriedExtensions) THEN None
    ELSE IF <<filename, TriedExtensions[k]>> \in dir_files
    THEN <<filename, TriedExtensions[k]>>
    ELSE FindFrom(filename, dir_files, k + 1)
FindImageAssumed(filename, dir_files) ==
    IF FindFrom(filename, dir_files, 1) = None
    THEN <<filename, TriedExtensions[1]>>
    ELSE FindFrom(filename, dir_files, 1)
FindImage(filename, dir_files) == FindFrom(filename, dir_files, 1)

\* return f"\n*[Missing Image File: {filename}]*\n"
MissingMarker(filename) == <<"\n*[Missing Image File: ", filename, "]*\n">>
\* analysis_type = "TABLE" if "Table" in tag_type else "VISUAL"
AnalysisType(tag_type) ==
    IF tag_type = "Table Placeholder" THEN "TABLE" ELSE "VISUAL"
\* what _query_ollama returns: the description, nothing when the model
\* answers NO_CONTENT, or the text of the exception ollama raised
AnalyzerOutcomes == {"content", "NO_CONTENT", "exception"}
Analyze(image_path, specific_type, outcome) ==
    IF outcome = "content"
    THEN <<"\n\n> **Image Analysis:**\n", specific_type, image_path[1],
           image_path[2], "\n\n">>
    ELSE IF outcome = "NO_CONTENT" THEN <<>>
    ELSE <<"\n[System Error Processing Image: ", "e", "]\n">>

EnricherInit ==
    /\ md_tokens \in UNION {[1..n -> Lines] : n \in 0..MaxTokens}
    /\ images_dir_files \in ImageDirs
    /\ token_idx = 1
    /\ enriched = <<>>
    /\ analyses = {}
    /\ enricher_pc = "sub"
    /\ ParserIdle
    /\ UploadIdle
    /\ TaskIdle

\* pattern.sub copies what it does not match
CopyText ==
    /\ enricher_pc = "sub"
    /\ token_idx <= Len(md_tokens)
    /\ ~md_tokens[token_idx].matches
    /\ enriched' = Append(enriched, md_tokens[token_idx].text)
    /\ token_idx' = token_idx + 1
    /\ UNCHANGED <<md_tokens, images_dir_files, analyses, enricher_pc, vars,
                   upload_vars, task_vars>>

\* replacer(match)
Replacer ==
    /\ enricher_pc = "sub"
    /\ token_idx <= Len(md_tokens)
    /\ md_tokens[token_idx].matches
    /\ LET filename == md_tokens[token_idx].filename
           image_path == FindImage(filename, images_dir_files)
           analysis_type == AnalysisType(md_tokens[token_idx].tag_type)
       IN  IF image_path = None
           THEN /\ enriched' = Append(enriched, MissingMarker(filename))
                /\ UNCHANGED analyses
           ELSE \E outcome \in AnalyzerOutcomes :
                /\ analyses' = analyses \cup
                      {[token |-> token_idx, image_path |-> image_path,
                        specific_type |-> analysis_type]}
                /\ enriched' = Append(enriched,
                                      Analyze(image_path, analysis_type,
                                              outcome))
    /\ token_idx' = token_idx + 1
    /\ UNCHANGED <<md_tokens, images_dir_files, enricher_pc, vars,
                   upload_vars, task_vars>>

\* pattern.sub returns the new content
ReturnEnriched ==
    /\ enricher_pc = "sub"
    /\ token_idx > Len(md_tokens)
    /\ enricher_pc' = "done"
    /\ UNCHANGED <<md_tokens, images_dir_files, token_idx, enriched, analyses,
                   vars, upload_vars, task_vars>>

EnricherNext ==
    \/ CopyText
    \/ Replacer
    \/ ReturnEnriched

EnricherSpec == EnricherInit /\ [][EnricherNext]_<<vars, outer_vars>>

\* ------------------------------------------------------ document pipeline
\* step_to_status of update_progress
StepToStatus ==
    [step \in {"document_parsing", "embeddings_started", "embeddings_created",
               "understanding_agent_pending", "control_logic_pending",
               "validator_agent_pending", "code_generator_pending",
               "loop_mapper_pending", "completed", "uploading"} |->
        IF step = "document_parsing" THEN "parsing the document"
        ELSE IF step \in {"embeddings_started", "embeddings_created"}
        THEN "embedding the parsed document"
        ELSE IF step = "understanding_agent_pending"
        THEN "understanding the document"
        ELSE IF step = "control_logic_pending"
        THEN "extracting control logic"
        ELSE IF step = "validator_agent_pending"
        THEN "validating the control logic"
        ELSE IF step = "code_generator_pending" THEN "generating code"
        ELSE IF step = "loop_mapper_pending" THEN "mapping loops"
        ELSE IF step = "completed" THEN "ready / completed"
        ELSE "uploading the document"]

\* step.endswith("_failed"), for the steps the pipeline passes
EndsWithFailed(step) == step \in {"embeddings_failed"}

\* update_progress: the record after the update
UpdateProgress(record, step) ==
    [status |-> IF EndsWithFailed(step) THEN "failed"
                ELSE IF step \in DOMAIN StepToStatus THEN StepToStatus[step]
                ELSE record.status,
     progress |-> step]

\* the updates of the given steps, one after the other
RECURSIVE UpdateAll(_, _)
UpdateAll(record, steps) ==
    IF steps = <<>> THEN record
    ELSE UpdateAll(UpdateProgress(record, steps[1]), Tail(steps))

\* update_progress is called for each of the steps
Progress(steps) ==
    /\ parsed_record' = UpdateAll(parsed_record, steps)
    /\ progress_log' = progress_log \o steps

\* an exception reaches the except clause of process_document_pipeline:
\* "status": "failed", "progress": {"step": "failed", ...}
Fail(step) ==
    /\ parsed_record' = [status |-> "failed", progress |-> "failed"]
    /\ progress_log' = Append(progress_log, "failed")
    /\ failed_steps' = failed_steps \cup {step}
    /\ task_pc' = "done"

\* the agents of run_agent_pipeline in the order they run, each with the
\* progress steps written once it has returned
Agents ==
    <<[name |-> "understanding_agent",
       then |-> <<"understanding_agent_completed", "control_logic_pending">>],
      [name |-> "control_logic_agent",
       then |-> <<"control_logic_completed", "loop_mapper_pending">>],
      [name |-> "mapper_agent",
       then |-> <<"loop_mapper_completed", "validator_agent_pending">>],
      [name |-> "validator_agent",
       then |-> <<"validator_agent_completed">>],
      [name |-> "code_generator_agent",
       then |-> <<"code_generator_completed",
                  "mindmap_generator_agent_pending">>],
      [name |-> "mindmap_agent", then |-> <<"completed">>]>>

ParsedFolders == {None, <<"uploaded_files/", "u1", "/", "a.pdf", "_parsed">>}

TaskInit ==
    /\ task_args \in [parsing_strategy : {"fast", "accurate"},
                      parsed_folder : ParsedFolders]
    /\ task_pc = "start"
    /\ agent_idx = 1
    /\ parsed_record = NewRecord
    /\ progress_log = <<>>
    /\ failed_steps = {}
    /\ ParserIdle
    /\ UploadIdle
    /\ EnricherIdle

\* update_progress(step="document_parsing", ...)
StartParsing ==
    /\ task_pc = "start"
    /\ Progress(<<"document_parsing">>)
    /\ task_pc' = "document_parsing"
    /\ UNCHANGED <<task_args, agent_idx, failed_steps, vars, upload_vars,
                   enricher_vars>>

\* documentAgent.run and the updates that follow it; a result without
\* markdown_path (the markdown could not be written) has no such key in
\* its metadata, and the lookup raises
RunDocumentAgent ==
    /\ task_pc = "document_parsing"
    /\ \E outcome \in {"parsed", "no_markdown", "raised"} :
         IF outcome = "parsed"
         THEN /\ Progress(<<"document_parsing", "image_parsing">>)
              /\ task_pc' = "image_parsing"
              /\ UNCHANGED failed_steps
         ELSE Fail("document_parsing")
    /\ UNCHANGED <<task_args, agent_idx, vars, upload_vars, enricher_vars>>

\* image_parser_agent.run_image_parser and the updates that follow it
RunImageParser ==
    /\ task_pc = "image_parsing"
    /\ \E ok \in BOOLEAN :
         IF ok
         THEN /\ Progress(<<"image_parsing">>)
              /\ task_pc' = "embeddings"
              /\ UNCHANGED failed_steps
         ELSE Fail("image_parsing")
    /\ UNCHANGED <<task_args, agent_idx, vars, upload_vars, enricher_vars>>

\* the inner try block of the embeddings step and its except clause, and
\* update_progress(step="agent_pipeline", ...); the step fails before or
\* after "embeddings_started" is written, or not at all
CreateEmbeddings ==
    /\ task_pc = "embeddings"
    /\ \E outcome \in {"created", "no_directory", "raised"} :
         /\ Progress((IF outcome = "created"
                      THEN <<"embeddings_started", "embeddings_created">>
                      ELSE IF outcome = "raised"
                      THEN <<"embeddings_started", "embeddings_failed">>
                      ELSE <<"embeddings_failed">>)
                     \o <<"agent_pipeline">>)
         /\ failed_steps' = IF outcome = "created" THEN failed_steps
                            ELSE failed_steps \cup {"embeddings"}
    /\ task_pc' = "agent_pipeline"
    /\ UNCHANGED <<task_args, agent_idx, vars, upload_vars, enricher_vars>>

\* the search for a markdown file in parsed_folder, which raises without a
\* parsed_folder or without such a file, and the head of
\* run_agent_pipeline: create_output_dir may raise, and a failure of
\* parse_markdown_file is caught there and run_agent_pipeline returns
StartAgentPipeline ==
    /\ task_pc = "agent_pipeline"
    /\ \E outcome \in {"sections", "no_markdown_file", "no_output_dir",
                        "unreadable_markdown"} :
         IF task_args.parsed_folder = None \/ outcome = "no_markdown_file"
         THEN /\ Fail("find_markdown")
              /\ UNCHANGED agent_idx
         ELSE IF outcome = "no_output_dir"
         THEN /\ Fail("create_output_dir")
              /\ UNCHANGED agent_idx
         ELSE IF outcome = "unreadable_markdown"
         THEN /\ failed_steps' = failed_steps \cup {"parse_markdown_file"}
              /\ task_pc' = "returned"
              /\ UNCHANGED <<agent_idx, parsed_record, progress_log>>
         ELSE /\ Progress(<<"understanding_agent_pending">>)
              /\ agent_idx' = 1
              /\ task_pc' = "agents"
              /\ UNCHANGED failed_steps
    /\ UNCHANGED <<task_args, vars, upload_vars, enricher_vars>>

\* one agent of run_agent_pipeline runs, its output is saved and the
\* progress written; an exception leaves run_agent_pipeline
RunAgent ==
    /\ task_pc = "agents"
    /\ \E ok \in BOOLEAN :
         IF ok
         THEN /\ Progress(Agents[agent_idx].then)
              /\ IF agent_idx < Len(Agents)
                 THEN /\ agent_idx' = agent_idx + 1
                      /\ UNCHANGED task_pc
                 ELSE /\ task_pc' = "returned"
                      /\ UNCHANGED agent_idx
              /\ UNCHANGED failed_steps
         ELSE /\ Fail(Agents[agent_idx].name)
              /\ UNCHANGED agent_idx
    /\ UNCHANGED <<task_args, vars, upload_vars, enricher_vars>>

\* run_agent_pipeline has returned: update_progress(step="completed", ...)
Complete ==
    /\ task_pc = "returned"
    /\ Progress(<<"completed">>)
    /\ task_pc' = "done"
    /\ UNCHANGED <<task_args, agent_idx, failed_steps, vars, upload_vars,
                   enricher_vars>>

TaskNext ==
    \/ StartParsing
    \/ RunDocumentAgent
    \/ RunImageParser
    \/ CreateEmbeddings
    \/ StartAgentPipeline
    \/ RunAgent
    \/ Complete

TaskSpec == TaskInit /\ [][TaskNext]_<<vars, outer_vars>>

\* ------------------------------------------------------------ properties
\* the page of the document at position p (from 1), and the candidates
\* find_tables() yields for it (none where pdfplumber lacks the page)
PageAt(p) == CataloguePage(doc.pages[p])
Candidates(p) == IF p <= doc.plumber_pages THEN PageAt(p).tables ELSE <<>>
FilesHolding(image_bytes) ==
    {path \in DOMAIN files : files[path] = SavedPng(image_bytes)}

\* C1: within one parser, two _save_image calls given identical bytes that
\* both return an identifier return the same identifier, and images/ holds
\* exactly one file with that content.
C1_Dedup ==
    \A a, b \in calls :
        (a.bytes = b.bytes /\ a.ret # None /\ b.ret # None) =>
            /\ a.ret = b.ret
            /\ Cardinality(FilesHolding(a.bytes)) = 1

\* the same bytes were saved from two pages, once as a table crop and once
\* as a page capture
C1_Witness ==
    \E a, b \in calls :
        /\ a.bytes = b.bytes
        /\ a.page # b.page
        /\ a.kind # b.kind
        /\ a.ret # None
        /\ b.ret # None

\* C2: no emitted text block's bbox intersects the bbox of a table
\* candidate of the same page that passed _is_valid_table, whether or not
\* a placeholder was emitted for that table.
C2_NoOverlap ==
    \A p \in 1..Len(layout) :
        \A tables \in {Candidates(p)} :
            \A i \in 1..Len(layout[p]) :
                layout[p][i].type = "text" =>
                    \A k \in 1..Len(tables) :
                        IsValidTable(tables[k]) =>
                            ~Intersects(tables[k].bbox, layout[p][i].bbox)

\* C3: the blocks of every page are in non-decreasing order of the top
\* coordinate they had when they were assembled.
C3_Ordering ==
    \A p \in 1..Len(layout) :
        \A i \in 1..(Len(layout[p]) - 1) :
            layout[p][i].top <= layout[p][i + 1].top

\* a page whose page capture and a text block were assembled after a table
\* and come out before it
C3_Witness ==
    \E p \in 1..Len(layout) :
        /\ Len(layout[p]) >= 4
        /\ layout[p][1].type = "visual_context_placeholder"
        /\ layout[p][2].type = "text"
        /\ layout[p][3].type = "table_placeholder"
        /\ layout[p][4].type = "text"

\* C4: a second parse of the same document into the same output directory,
\* with the same render outcomes and the same regions failing to save,
\* ends as the first did: the same pages and blocks in the same order, the
\* same set of image ids and the same hash-to-id mapping.
C4_Determinism ==
    (Ended /\ prev.pc # "none" /\ skipped = prev.skipped) =>
        /\ pc = prev.pc
        /\ error = prev.error
        /\ result.pages = prev.result.pages
        /\ DOMAIN result.images = DOMAIN prev.result.images
        /\ unique_image_hashes = prev.hashes

\* both parses returned two pages, stored two images and skipped a region
\* whose save failed
C4_Witness ==
    /\ pc = "returned"
    /\ parses = 1
    /\ prev.parses = 1
    /\ Len(result.pages) = 2
    /\ Cardinality(DOMAIN result.images) = 2
    /\ skipped # {}

\* C5: parsing the unchanged document again, with images/ as the first run
\* left it, by a new parser or by the same one, leaves the number of files
\* in images/ unchanged.
C5_Idempotence ==
    prev.pc # "none" =>
        Cardinality(DOMAIN files) = Cardinality(DOMAIN prev.files)

\* the same parser has parsed a document with two images a second time
C5_Witness ==
    /\ Ended
    /\ parses = 2
    /\ Cardinality(DOMAIN files) = 2
    /\ Cardinality(DOMAIN prev.files) = 2

\* the blocks of finished page p that came from the given source
BlocksFrom(p, src) == {i \in 1..Len(layout[p]) : layout[p][i].src = src}

\* the table rule as the specification words it
TableRule(table_obj) ==
    /\ table_obj.bbox.x1 - table_obj.bbox.x0 >= 50
    /\ table_obj.bbox.y1 - table_obj.bbox.y0 >= 20
    /\ Len(table_obj.grid) > 0
    /\ (Len(table_obj.grid) >= 2 \/ Len(table_obj.grid[1]) >= 2)

\* C6: _is_valid_table accepts a candidate exactly when its bbox is at
\* least 50 wide and 20 high and its grid is non-empty with at least 2 rows
\* or at least 2 columns; a candidate whose crop renders and saves gets a
\* placeholder block exactly then.
C6_TableRule ==
    \A p \in 1..Len(doc.pages) :
        \A tables \in {Candidates(p)} :
            \A k \in 1..Len(tables) :
                /\ IsValidTable(tables[k]) <=> TableRule(tables[k])
                /\ (p <= Len(layout) /\ tables[k].pix.ok
                        /\ tables[k].writable) =>
                       (BlocksFrom(p, Source("table", k)) # {}
                           <=> TableRule(tables[k]))

\* a candidate 50 wide and 20 high with a grid of 2 rows and 1 column was
\* processed and got its placeholder block
C6_Witness ==
    /\ Len(layout) = 1
    /\ BlocksFrom(1, Source("table", 1)) # {}
    /\ \E tables \in {Candidates(1)} :
         /\ Len(tables) = 1
         /\ RectWidth(tables[1].bbox) = 50
         /\ RectHeight(tables[1].bbox) = 20
         /\ Len(tables[1].grid) = 2
         /\ Len(tables[1].grid[1]) = 1

\* the rejection conditions of the significance filter as the
\* specification words them, for a region on a page of the given size
VisualRejected(rect, page_height, page_width) ==
    LET width == rect.x1 - rect.x0
        height == rect.y1 - rect.y0
    IN  \/ 100 * rect.y1 < 15 * page_height
        \/ 100 * rect.y0 > 85 * page_height
        \/ width < 30
        \/ height < 30
        \/ width > 10 * height
        \/ height > 10 * width
        \/ (100 * width > 80 * page_width /\ 100 * height > 50 * page_height)

\* the drawings of a page the specification's rule keeps
KeptDrawings(fitz_page) ==
    {i \in 1..Len(fitz_page.drawings) :
        /\ fitz_page.drawings[i].ok
        /\ ~VisualRejected(fitz_page.drawings[i].rect,
                           RectHeight(fitz_page.rect),
                           RectWidth(fitz_page.rect))}

\* C7: _is_significant_visual rejects a region exactly when it lies wholly
\* in the top 15% or bottom 15% of the page, or a side is under 30, or one
\* side is more than 10 times the other, or it is wider than 80% of the
\* page and taller than 50% of it; a page without tables and images is
\* captured exactly when more than 10 of its drawings are kept.
C7_VisualRule ==
    \A p \in 1..Len(doc.pages) :
        \A fitz_page \in {PageAt(p)} :
            \A kept \in {KeptDrawings(fitz_page)} :
                /\ \A i \in 1..Len(fitz_page.drawings) :
                     fitz_page.drawings[i].ok =>
                        (IsSignificantVisual(fitz_page.drawings[i].rect,
                                             RectHeight(fitz_page.rect),
                                             RectWidth(fitz_page.rect))
                            <=> i \in kept)
                /\ (/\ p <= Len(layout)
                    /\ fitz_page.tables = <<>>
                    /\ fitz_page.images = <<>>
                    /\ fitz_page.pix.ok
                    /\ fitz_page.writable) =>
                       (BlocksFrom(p, Source("page", 0)) # {}
                           <=> Cardinality(kept) > 10)

\* a page drawn with regions 30 wide and 300 high in the body of the page
\* was judged and captured
C7_Witness ==
    /\ Len(layout) = 1
    /\ BlocksFrom(1, Source("page", 0)) # {}
    /\ \E fitz_page \in {PageAt(1)} :
         /\ Len(fitz_page.drawings) > 10
         /\ \A i \in 1..Len(fitz_page.drawings) :
              /\ RectWidth(fitz_page.drawings[i].rect) = 30
              /\ RectHeight(fitz_page.drawings[i].rect) = 300
              /\ fitz_page.drawings[i].rect.y0 = 200

\* C8: hash and id are in one-to-one correspondence: no two hashes map to
\* the same id, every id in images is the image of exactly one hash, and
\* every id a hash maps to has an entry in images.
C8_Bijection ==
    /\ \A h1, h2 \in DOMAIN unique_image_hashes :
         unique_image_hashes[h1] = unique_image_hashes[h2] => h1 = h2
    /\ \A image_id \in DOMAIN images :
         Cardinality({h \in DOMAIN unique_image_hashes :
                         unique_image_hashes[h] = image_id}) = 1
    /\ \A h \in DOMAIN unique_image_hashes :
         unique_image_hashes[h] \in DOMAIN images

\* two contents are stored, and a failed save came before one of them
C8_Witness ==
    /\ Cardinality(DOMAIN unique_image_hashes) = 2
    /\ Cardinality(DOMAIN images) = 2
    /\ image_counter > 2

\* C9: when writing an image fails, _save_image returns None instead of
\* raising: the step adds nothing to images, to the hash map or to the
\* directory and does not end the parse; no block is emitted for that
\* region, and the parse returns every page.
C9_SaveFailureSkipped ==
    /\ [](pc = "returned" =>
            /\ Len(result.pages) = Len(doc.pages)
            /\ \A s \in skipped : BlocksFrom(s[1], s[2]) = {})
    /\ [][(skipped' # skipped /\ skipped \subseteq skipped') =>
            /\ pc' # "raised"
            /\ images' = images
            /\ unique_image_hashes' = unique_image_hashes
            /\ files' = files]_vars

\* a table crop of page 1 could not be saved, and the parse returned both
\* pages with blocks on each
C9_Witness ==
    /\ pc = "returned"
    /\ <<1, Source("table", 1)>> \in skipped
    /\ Len(result.pages) = 2
    /\ result.pages[1].blocks # <<>>
    /\ result.pages[2].blocks # <<>>
    /\ DOMAIN result.images # {}

\* C10: a failure to render one region only drops that region's block: a
\* parse that met no failure to open the document or to read a page's text
\* returns a result holding every page.
C10_RenderFailureIsLocal ==
    (Ended /\ error \notin {"OpenError", "TextError"}) =>
        /\ pc = "returned"
        /\ Len(result.pages) = Len(doc.pages)

\* C11: when opening the document or reading a page raises, parse() raises:
\* it returns no result, not even the pages finished before the failing
\* one, and no markdown file is written.
C11_FatalNoResult ==
    error \in {"OpenError", "TextError"} =>
        /\ pc = "raised"
        /\ result = NoResult
        /\ md_file = None

\* page 1 was finished and its image stored, then page 2 could not be read
C11_Witness ==
    /\ pc = "raised"
    /\ error = "TextError"
    /\ Len(structured_pages) = 1
    /\ structured_pages[1].blocks # <<>>
    /\ DOMAIN files # {}

\* a result without its markdown path
SansMarkdown(res) == [res EXCEPT !.markdown_path = None]

\* C12: when the markdown file cannot be written parse() still returns,
\* with markdown_path null, and with the pages, images map and metadata of
\* a parse whose write succeeded.
C12_MarkdownFailureNonFatal ==
    pc = "returned" =>
        /\ result.returned
        /\ result.pages = structured_pages
        /\ Len(result.pages) = Len(doc.pages)
        /\ result.images = images
        /\ result.num_pages = Len(structured_pages)
        /\ (result.markdown_path = None) \/ (md_file # None)
        /\ (prev.pc = "returned" /\ skipped = prev.skipped) =>
              SansMarkdown(result) = SansMarkdown(prev.result)

\* the markdown write of this parse failed, that of the previous parse of
\* the same two-page document did not
C12_Witness ==
    /\ pc = "returned"
    /\ result.markdown_path = None
    /\ prev.pc = "returned"
    /\ prev.result.markdown_path # None
    /\ Len(result.pages) = 2
    /\ DOMAIN result.images # {}

\* the placeholder blocks of a list of pages, as <<page, block>> positions
Placeholders(pages) ==
    UNION {{<<p, i>> : i \in {j \in 1..Len(pages[p].blocks) :
                                 pages[p].blocks[j].type # "text"}} :
           p \in 1..Len(pages)}

\* C13: every table_placeholder and visual_context_placeholder block
\* carries an image_id that is a key of the images map, whose file is
\* stored, and the block's content string embeds exactly that identifier.
C13_PlaceholdersReferStore ==
    /\ \A pos \in Placeholders(structured_pages) :
         \E b \in {structured_pages[pos[1]].blocks[pos[2]]} :
            /\ b.image_id \in DOMAIN images
            /\ images[b.image_id].path \in DOMAIN files
            /\ Len(b.content) = Len(b.image_id) + 2
            /\ SubSeq(b.content, 2, Len(b.content) - 1) = b.image_id
    /\ pc = "returned" =>
         \A pos \in Placeholders(result.pages) :
            result.pages[pos[1]].blocks[pos[2]].image_id
                \in DOMAIN result.images

\* a returned page holds a table placeholder and a page-capture
\* placeholder
C13_Witness ==
    /\ pc = "returned"
    /\ \E p \in 1..Len(result.pages) :
         /\ \E i \in 1..Len(result.pages[p].blocks) :
              result.pages[p].blocks[i].type = "table_placeholder"
         /\ \E i \in 1..Len(result.pages[p].blocks) :
              result.pages[p].blocks[i].type = "visual_context_placeholder"

\* the boxes of the table candidates the region classifier accepts
AcceptedBoxes(tables) ==
    {tables[k].bbox : k \in {j \in 1..Len(tables) : IsValidTable(tables[j])}}

\* the embedded image rectangles of a page, as <<image, rectangle>>
\* positions, that pass the significance filter and intersect no accepted
\* table box
QualifyingImages(fitz_page, boxes) ==
    {pos \in UNION {{<<i, j>> : j \in 1..Len(ImageRects(fitz_page, i))} :
                    i \in 1..Len(fitz_page.images)} :
        /\ IsSignificantVisual(ImageRects(fitz_page, pos[1])[pos[2]],
                               RectHeight(fitz_page.rect),
                               RectWidth(fitz_page.rect))
        /\ \A box \in boxes :
              ~Intersects(box, ImageRects(fitz_page, pos[1])[pos[2]])}

\* the well-formed drawings of a page that pass the significance filter
\* and intersect no accepted table box
QualifyingDrawings(fitz_page, boxes) ==
    {i \in 1..Len(fitz_page.drawings) :
        /\ fitz_page.drawings[i].ok
        /\ IsSignificantVisual(fitz_page.drawings[i].rect,
                               RectHeight(fitz_page.rect),
                               RectWidth(fitz_page.rect))
        /\ \A box \in boxes : ~Intersects(box, fitz_page.drawings[i].rect)}

\* a finished page that renders and saves was captured
Captured(p) == BlocksFrom(p, Source("page", 0)) # {}

\* C14: a page with at least one embedded image rectangle that passes the
\* significance filter and intersects no accepted table box is captured
\* whole, whatever its drawings and whatever the size of the image.
C14_ImageTriggersCapture ==
    \A p \in 1..Len(layout) :
        \A fitz_page \in {PageAt(p)} :
            (/\ fitz_page.pix.ok
             /\ fitz_page.writable
             /\ QualifyingImages(fitz_page,
                                 AcceptedBoxes(Candidates(p))) # {})
                => Captured(p)

\* C15: a page with no qualifying embedded image is captured whole exactly
\* when more than 10 drawings pass the significance filter after leaving
\* out those that intersect an accepted table box; drawings that cannot be
\* normalised are not counted.
C15_DrawingThreshold ==
    \A p \in 1..Len(layout) :
        \A fitz_page \in {PageAt(p)} :
            \A boxes \in {AcceptedBoxes(Candidates(p))} :
                (/\ fitz_page.pix.ok
                 /\ fitz_page.writable
                 /\ QualifyingImages(fitz_page, boxes) = {})
                    => (Captured(p) <=>
                          Cardinality(QualifyingDrawings(fitz_page, boxes))
                              > 10)

\* the tasks that are running, as <<request, task>> positions
RunningTasks ==
    UNION {{<<r, i>> : i \in TasksIn(r, "running")} : r \in DOMAIN requests}

\* C16: documents with distinct ids get distinct parsed_folder paths, and
\* no two tasks that run at the same time are given the same output
\* directory.
C16_DistinctOutputDirs ==
    /\ \A a, b \in RunningTasks :
         a # b =>
            requests[a[1]].tasks[a[2]].parsed_folder
                # requests[b[1]].tasks[b[2]].parsed_folder
    /\ \A i, j \in 1..Len(parsed_collection) :
         parsed_collection[i].document_id # parsed_collection[j].document_id
            => parsed_collection[i].parsed_folder
                   # parsed_collection[j].parsed_folder

\* the numbers of the identifiers this parser returned to calls of the
\* given kind of region
IdNumbers(kind) ==
    {n \in 0..image_counter :
        \E c \in calls : c.kind = kind /\ c.ret = ImageId(n)}

\* C17: identifiers are allocated from one sequence per kind: when every
\* save succeeded and no content is shared between kinds, the table crops
\* hold the identifiers numbered 1..n of the tables and the page captures
\* those numbered 1..m of the page captures.
C17_IdsTypedByKind ==
    (/\ \A c \in calls : c.ret # None
     /\ IdNumbers("table") \cap IdNumbers("page") = {})
        => /\ IdNumbers("table") = 1..Cardinality(IdNumbers("table"))
           /\ IdNumbers("page") = 1..Cardinality(IdNumbers("page"))

\* the placeholder names an image that images/ holds under none of the
\* extensions tried
ImageMissing(filename) ==
    \A e \in {".png", ".jpg", ".jpeg", ".tif", ".tiff"} :
        <<filename, e>> \notin images_dir_files

\* C18: a placeholder whose image file exists under none of the tried
\* extensions is replaced by the missing-image marker without a call of the
\* analyzer; every line is still processed, every other placeholder is
\* analysed once, and the call returns.
C18_MissingImageMarked ==
    /\ Len(enriched) = token_idx - 1
    /\ enricher_pc = "done" => Len(enriched) = Len(md_tokens)
    /\ \A i \in 1..Len(enriched) :
         md_tokens[i].matches =>
            IF ImageMissing(md_tokens[i].filename)
            THEN /\ enriched[i] = <<"\n*[Missing Image File: ",
                                    md_tokens[i].filename, "]*\n">>
                 /\ \A a \in analyses : a.token # i
            ELSE Cardinality({a \in analyses : a.token = i}) = 1

\* the first placeholder's image is stored only under an extension that
\* is not tried, the second one's image was found and analysed
C18_Witness ==
    /\ enricher_pc = "done"
    /\ Len(md_tokens) = 2
    /\ md_tokens[1].matches
    /\ md_tokens[2].matches
    /\ <<md_tokens[1].filename, ".bmp">> \in images_dir_files
    /\ ImageMissing(md_tokens[1].filename)
    /\ \E a \in analyses : a.token = 2

\* C19: a table the classifier accepts whose rendered bytes are already in
\* the image store still gets its own table_placeholder block, carrying the
\* stored identifier, while no file is written and the counter stands; in
\* the returned result every accepted table whose save was not skipped has
\* exactly one block on its page, with the identifier stored for its bytes.
C19_DedupKeepsBlock ==
    /\ [][(/\ pc = "tables"
           /\ page_idx < doc.plumber_pages
           /\ table_idx <= Len(CurrentPage.tables)
           /\ table_idx' # table_idx
           /\ TableRule(CurrentPage.tables[table_idx])
           /\ CurrentPage.tables[table_idx].pix.ok
           /\ Md5(CurrentPage.tables[table_idx].pix.bytes)
                 \in DOMAIN unique_image_hashes)
          => /\ Len(table_blocks') = Len(table_blocks) + 1
             /\ SubSeq(table_blocks', 1, Len(table_blocks)) = table_blocks
             /\ table_blocks'[Len(table_blocks')].type = "table_placeholder"
             /\ table_blocks'[Len(table_blocks')].image_id =
                  unique_image_hashes[
                      Md5(CurrentPage.tables[table_idx].pix.bytes)]
             /\ table_blocks'[Len(table_blocks')].src =
                  Source("table", table_idx)
             /\ files' = files
             /\ image_counter' = image_counter]_vars
    /\ [](pc = "returned" =>
            \A p \in 1..Len(doc.pages) :
               \A tables \in {Candidates(p)} :
                  \A k \in 1..Len(tables) :
                     (/\ TableRule(tables[k])
                      /\ <<p, Source("table", k)>> \notin skipped)
                       => \E at \in {BlocksFrom(p, Source("table", k))} :
                            /\ Cardinality(at) = 1
                            /\ \A i \in at :
                                 /\ result.pages[p].blocks[i].type =
                                      "table_placeholder"
                                 /\ result.pages[p].blocks[i].image_id =
                                      unique_image_hashes[
                                          Md5(tables[k].pix.bytes)])

\* a first parse of two pages that repeat one table returned one table
\* placeholder per page, both with the one identifier of the store
C19_Witness ==
    /\ pc = "returned"
    /\ parses = 1
    /\ Len(result.pages) = 2
    /\ Cardinality(DOMAIN result.images) = 1
    /\ Cardinality(DOMAIN files) = 1
    /\ \A p \in 1..2 :
         /\ Len(Candidates(p)) = 1
         /\ Candidates(p)[1].pix.bytes = Candidates(1)[1].pix.bytes
         /\ \E i \in 1..Len(result.pages[p].blocks) :
              /\ result.pages[p].blocks[i].type = "table_placeholder"
              /\ result.pages[p].blocks[i].image_id \in DOMAIN result.images

\* C20: a _save_image call whose content hash is already known leaves the
\* image store as it was: the counter, the hash map, the images map with
\* the entry's path and first_seen_page, and the files, whatever page the
\* call comes from and whether or not the picture could be written; it
\* returns the stored identifier.
C20_KnownHashFrame ==
    /\ [][(\/ /\ pc = "tables"
              /\ page_idx < doc.plumber_pages
              /\ table_idx <= Len(CurrentPage.tables)
              /\ table_idx' # table_idx
              /\ TableRule(CurrentPage.tables[table_idx])
              /\ CurrentPage.tables[table_idx].pix.ok
              /\ Md5(CurrentPage.tables[table_idx].pix.bytes)
                    \in DOMAIN unique_image_hashes
           \/ /\ pc = "visuals"
              /\ pc' = "text"
              /\ CurrentPage.pix.ok
              /\ Md5(CurrentPage.pix.bytes) \in DOMAIN unique_image_hashes)
          => /\ image_counter' = image_counter
             /\ unique_image_hashes' = unique_image_hashes
             /\ images' = images
             /\ files' = files]_vars
    /\ [](\A c \in calls : \A page_num \in 1..(MaxPages + 1) :
             \A writable \in BOOLEAN :
                Md5(c.bytes) \in DOMAIN unique_image_hashes =>
                   \E saved \in {SaveImage(Store, c.bytes, page_num,
                                           writable)} :
                      /\ saved.store = Store
                      /\ saved.ret = unique_image_hashes[Md5(c.bytes)])

\* in a first parse the same bytes were interned from two pages, the later
\* call could not have written its picture, and the entry still names the
\* earlier page
C20_Witness ==
    /\ parses = 1
    /\ Ended
    /\ \E a, b \in calls :
         /\ a.bytes = b.bytes
         /\ a.page < b.page
         /\ a.ret # None
         /\ b.ret = a.ret
         /\ images[a.ret].first_seen_page = a.page
         /\ \E tables \in {Candidates(b.page)} :
              \E k \in 1..Len(tables) :
                 /\ tables[k].pix.bytes = b.bytes
                 /\ ~tables[k].writable

\* C21: after any sequence of _save_image calls, failed ones included, the
\* identifiers of the image store are exactly img_001 .. img_n, n being
\* the number of stored entries: no number is skipped.
C21_IdsSequential ==
    DOMAIN images = {ImageId(n) : n \in 1..Cardinality(DOMAIN images)}

\* the number an identifier of a store with counter c carries
IdNumber(image_id, c) == CHOOSE n \in 0..c : ImageId(n) = image_id

\* C22: pages are processed one after another, an identifier allocated
\* while a page is processed is numerically greater than every identifier
\* allocated before it and is stamped with that page, which no earlier
\* stamp exceeds; so first_seen_page is non-decreasing in identifier order.
C22_MonotonicAllocation ==
    /\ [][/\ page_idx' # page_idx =>
               \/ page_idx' = page_idx + 1
               \/ pc = "open" /\ page_idx' = 0
          /\ \A image_id \in DOMAIN images' \ DOMAIN images :
               /\ image_counter' > image_counter
               /\ image_id = ImageId(image_counter')
               /\ images'[image_id].first_seen_page = page_idx + 1
               /\ \A old \in DOMAIN images :
                    /\ IdNumber(old, image_counter) < image_counter'
                    /\ images[old].first_seen_page <= page_idx + 1]_vars
    /\ [](\A a, b \in DOMAIN images :
             IdNumber(a, image_counter) < IdNumber(b, image_counter) =>
                images[a].first_seen_page <= images[b].first_seen_page)

\* a returned parse stored an image first seen on page 1 and, under a
\* greater identifier, one first seen on page 2
C22_Witness ==
    /\ pc = "returned"
    /\ \E a, b \in DOMAIN images :
         /\ IdNumber(a, image_counter) < IdNumber(b, image_counter)
         /\ images[a].first_seen_page = 1
         /\ images[b].first_seen_page = 2

\* the pages whose _save_image call stored the content this entry holds
StoringPages(image_id) ==
    {c.page : c \in {d \in calls : d.ret = image_id}}

\* C23: within a parse an entry of the image store is created once and
\* then neither removed nor modified, and every placeholder block of a page
\* q refers to an entry whose first_seen_page is at most q and is the page
\* of the first call that stored that content.
C23_EntriesStable ==
    /\ [][run' = run =>
            \A image_id \in DOMAIN images :
               /\ image_id \in DOMAIN images'
               /\ images'[image_id] = images[image_id]]_vars
    /\ [](\A pos \in Placeholders(structured_pages) :
             \E b \in {structured_pages[pos[1]].blocks[pos[2]]} :
                /\ b.image_id \in DOMAIN images
                /\ images[b.image_id].first_seen_page <= pos[1]
                /\ \A q \in StoringPages(b.image_id) :
                     images[b.image_id].first_seen_page <= q
                /\ images[b.image_id].first_seen_page
                      \in StoringPages(b.image_id))

\* The same statement for the first parse() of a parser only, which begins
\* with an empty image store: it holds there.
C23_EntriesStableFirstParse ==
    /\ [][run' = run =>
            \A image_id \in DOMAIN images :
               /\ image_id \in DOMAIN images'
               /\ images'[image_id] = images[image_id]]_vars
    /\ [](parses = 1 =>
            \A pos \in Placeholders(structured_pages) :
               \E b \in {structured_pages[pos[1]].blocks[pos[2]]} :
                  /\ b.image_id \in DOMAIN images
                  /\ images[b.image_id].first_seen_page <= pos[1]
                  /\ \A q \in StoringPages(b.image_id) :
                       images[b.image_id].first_seen_page <= q
                  /\ images[b.image_id].first_seen_page
                        \in StoringPages(b.image_id))

\* a first parse returned a block on page 2 that refers to an entry first
\* seen on page 1
C23_Witness ==
    /\ pc = "returned"
    /\ parses = 1
    /\ \E pos \in Placeholders(structured_pages) :
         /\ pos[1] = 2
         /\ images[structured_pages[2].blocks[pos[2]].image_id]
               .first_seen_page = 1

\* the order in which the blocks of a page are emitted: the tables in
\* detection order, the page capture, the text blocks in native order
EmittedBefore(a, b) ==
    LET rank(s) == IF s.kind = "table" THEN 1
                   ELSE IF s.kind = "page" THEN 2 ELSE 3
    IN  \/ rank(a) < rank(b)
        \/ rank(a) = rank(b) /\ a.index < b.index

\* C24: blocks of a page with equal top keep their emission order in the
\* final sequence: table placeholders in detection order, then the page
\* capture, then the text blocks in native order.
C24_TiesKeepEmissionOrder ==
    \A p \in 1..Len(layout) :
        \A i, j \in 1..Len(layout[p]) :
            (i < j /\ layout[p][i].top = layout[p][j].top) =>
                EmittedBefore(layout[p][i].src, layout[p][j].src)

\* a page came out with two tables level with each other, a page capture
\* level with a text block, and two text blocks level with each other
C24_Witness ==
    \E p \in 1..Len(layout) :
        /\ \E i, j \in 1..Len(layout[p]) :
             /\ i < j
             /\ layout[p][i].top = layout[p][j].top
             /\ layout[p][i].type = "table_placeholder"
             /\ layout[p][j].type = "table_placeholder"
        /\ \E i, j \in 1..Len(layout[p]) :
             /\ i < j
             /\ layout[p][i].top = layout[p][j].top
             /\ layout[p][i].type = "visual_context_placeholder"
             /\ layout[p][j].type = "text"
        /\ \E i, j \in 1..Len(layout[p]) :
             /\ i < j
             /\ layout[p][i].top = layout[p][j].top
             /\ layout[p][i].type = "text"
             /\ layout[p][j].type = "text"

\* the boxes of the tables of a finished page that got a placeholder, from
\* the k-th candidate on: the exclusion set the page was judged with
RECURSIVE PlacedBoxes(_, _, _)
PlacedBoxes(p, tables, k) ==
    IF k > Len(tables) THEN <<>>
    ELSE (IF BlocksFrom(p, Source("table", k)) # {}
          THEN <<tables[k].bbox>> ELSE <<>>)
         \o PlacedBoxes(p, tables, k + 1)

\* C25: a page yields at most one visual_context_placeholder block,
\* exactly when the page is judged to have complex visuals and its capture
\* was stored; the block has top 0 and precedes every text block of its
\* page in the final order.
C25_OneCaptureOnTop ==
    \A p \in 1..Len(layout) :
        \E at \in {BlocksFrom(p, Source("page", 0))} :
            /\ Cardinality(at) <= 1
            /\ at = {i \in 1..Len(layout[p]) :
                        layout[p][i].type = "visual_context_placeholder"}
            /\ at # {} <=>
                  /\ HasComplexVisuals(PageAt(p),
                                       PlacedBoxes(p, Candidates(p), 1))
                  /\ <<p, Source("page", 0)>> \notin skipped
            /\ \A i \in at :
                  /\ layout[p][i].top = 0
                  /\ \A j \in 1..Len(layout[p]) :
                        layout[p][j].type = "text" => i < j

\* the native text blocks of a page that the text step keeps when the
\* given boxes are excluded
KeptText(fitz_page, boxes) ==
    {k \in 1..Len(fitz_page.blocks) :
        /\ fitz_page.blocks[k].type = 0
        /\ ~IntersectsAny(boxes, fitz_page.blocks[k].bbox)
        /\ CleanText(JoinSpans(fitz_page.blocks[k].spans)) # None}

\* C26: a table candidate _is_valid_table rejects has no effect: the step
\* over it renders nothing, calls _save_image not at all, leaves the store,
\* the table blocks and the exclusion set as they were; on the finished
\* page it has no block, and the text blocks kept and the decision to
\* capture the page are those of the placed tables alone.
C26_RejectedHasNoEffect ==
    /\ [][(/\ pc = "tables"
           /\ page_idx < doc.plumber_pages
           /\ table_idx <= Len(CurrentPage.tables)
           /\ table_idx' # table_idx
           /\ ~TableRule(CurrentPage.tables[table_idx]))
          => /\ pc' = "tables"
             /\ error' = error
             /\ calls' = calls
             /\ skipped' = skipped
             /\ image_counter' = image_counter
             /\ images' = images
             /\ unique_image_hashes' = unique_image_hashes
             /\ files' = files
             /\ table_blocks' = table_blocks
             /\ table_bboxes' = table_bboxes]_vars
    /\ [](\A p \in 1..Len(layout) :
            \E fitz_page \in {PageAt(p)} :
               \E boxes \in {PlacedBoxes(p, Candidates(p), 1)} :
                  /\ \A k \in 1..Len(Candidates(p)) :
                        ~TableRule(Candidates(p)[k]) =>
                           BlocksFrom(p, Source("table", k)) = {}
                  /\ {layout[p][i].src.index :
                         i \in {j \in 1..Len(layout[p]) :
                                   layout[p][j].type = "text"}}
                        = KeptText(fitz_page, boxes)
                  /\ Captured(p) <=>
                        /\ HasComplexVisuals(fitz_page, boxes)
                        /\ <<p, Source("page", 0)>> \notin skipped)

\* a page whose only candidate was rejected came out with the text block
\* that lies inside the candidate and was captured for the strokes drawn
\* across it
C26_Witness ==
    /\ Len(layout) = 1
    /\ \E tables \in {Candidates(1)} :
         /\ Len(tables) = 1
         /\ ~TableRule(tables[1])
         /\ ~tables[1].pix.ok
         /\ \E i \in 1..Len(layout[1]) :
              /\ layout[1][i].type = "text"
              /\ Intersects(tables[1].bbox, layout[1][i].bbox)
         /\ \A i \in 1..Len(PageAt(1).drawings) :
              Intersects(tables[1].bbox, PageAt(1).drawings[i].rect)
    /\ Captured(1)

\* C27: every text block of a result has content of at least 3 characters
\* that neither begins nor ends with whitespace and holds no run of two
\* whitespace characters nor of three leader characters (dot, underscore,
\* dash); a native text block whose normalised content is shorter than 3
\* characters has no block.
C27_TextNormalised ==
    \A p \in 1..Len(layout) :
        /\ \A i \in 1..Len(layout[p]) :
             layout[p][i].type = "text" =>
                \E s \in {structured_pages[p].blocks[i].content} :
                   /\ Len(s) >= 3
                   /\ s[1] \notin {" ", "\t", "\n"}
                   /\ s[Len(s)] \notin {" ", "\t", "\n"}
                   /\ \A n \in 1..(Len(s) - 1) :
                        ~(s[n] \in {" ", "\t", "\n"}
                            /\ s[n + 1] \in {" ", "\t", "\n"})
                   /\ \A n \in 1..(Len(s) - 2) :
                        ~(\A m \in n..(n + 2) : s[m] \in {".", "_", "-"})
        /\ \A k \in 1..Len(PageAt(p).blocks) :
             Len(Strip(SubSpaces(SubLeaders(
                    JoinSpans(PageAt(p).blocks[k].spans), 1), 1))) < 3
                => BlocksFrom(p, Source("text", k)) = {}

\* a returned page holds the block "en d.." made of spans with a tab, a
\* run of three mixed leader characters and a newline, and none for the
\* native block "x "
C27_Witness ==
    /\ pc = "returned"
    /\ \E i \in 1..Len(result.pages[1].blocks) :
         /\ result.pages[1].blocks[i].type = "text"
         /\ result.pages[1].blocks[i].content = <<"e", "n", " ", "d", ".", ".">>
    /\ \E k \in 1..Len(PageAt(1).blocks) :
         /\ PageAt(1).blocks[k].type = 0
         /\ PageAt(1).blocks[k].spans = <<<<"x", " ">>>>
         /\ BlocksFrom(1, Source("text", k)) = {}

\* the lines of a markdown text, which blank lines separate, from its
\* i-th token on; cur is the line read so far
RECURSIVE SplitLines(_, _, _)
SplitLines(md, i, cur) ==
    IF i > Len(md) THEN <<cur>>
    ELSE IF md[i] = "\n\n" THEN <<cur>> \o SplitLines(md, i + 1, <<>>)
    ELSE SplitLines(md, i + 1, Append(cur, md[i]))

\* the number of markdown lines the pages before the p-th take
RECURSIVE LinesBefore(_, _)
LinesBefore(pages, p) ==
    IF p <= 1 THEN 0
    ELSE LinesBefore(pages, p - 1) + Len(pages[p - 1].blocks) + 2

\* C28: the markdown file written by a parse holds the pages in source
\* order, each as the heading "## Page N" followed by the content of
\* exactly that page's blocks in their final order and an empty line, and
\* nothing else: every placeholder string appears once per block, in the
\* order of the structured model.
C28_MarkdownProjection ==
    (pc = "returned" /\ result.markdown_path # None) =>
        \E lines \in {SplitLines(md_file, 1, <<>>)} :
            /\ Len(lines) = LinesBefore(result.pages, Len(result.pages) + 1)
            /\ \A p \in 1..Len(result.pages) :
                 \E at \in {LinesBefore(result.pages, p)} :
                    /\ lines[at + 1] = <<"## Page ">> \o Digits(p)
                    /\ \A i \in 1..Len(result.pages[p].blocks) :
                         lines[at + 1 + i] = result.pages[p].blocks[i].content
                    /\ lines[at + Len(result.pages[p].blocks) + 2] = <<>>

\* the markdown of two pages was written, the first with a table
\* placeholder between text blocks and the second with a page capture
C28_Witness ==
    /\ pc = "returned"
    /\ result.markdown_path # None
    /\ Len(result.pages) = 2
    /\ \E i \in 2..(Len(result.pages[1].blocks) - 1) :
         result.pages[1].blocks[i].type = "table_placeholder"
    /\ \E i \in 1..Len(result.pages[2].blocks) :
         result.pages[2].blocks[i].type = "visual_context_placeholder"
    /\ result.pages[1] # result.pages[2]

\* C29: a parse that returns gives exactly one page per source page, in
\* source order and numbered 1..N, and num_pages is N; the blocks of the
\* p-th page come from the p-th source page, and a page that keeps no
\* block or that the table detector does not have is there all the same,
\* with what blocks it has.
C29_OnePagePerSourcePage ==
    pc = "returned" =>
        /\ Len(result.pages) = Len(doc.pages)
        /\ result.num_pages = Len(doc.pages)
        /\ \A p \in 1..Len(result.pages) :
             \E fitz_page \in {PageAt(p)} :
                /\ result.pages[p].page_number = p
                /\ Len(result.pages[p].blocks) = Len(layout[p])
                /\ \A i \in 1..Len(layout[p]) :
                     \E b \in {layout[p][i]} :
                        /\ b.type = "table_placeholder" =>
                              /\ b.src.index \in 1..Len(Candidates(p))
                              /\ b.bbox = Candidates(p)[b.src.index].bbox
                        /\ b.type = "visual_context_placeholder" =>
                              fitz_page.pix.ok
                        /\ b.type = "text" =>
                              /\ b.src.index \in 1..Len(fitz_page.blocks)
                              /\ b.bbox = fitz_page.blocks[b.src.index].bbox
                              /\ result.pages[p].blocks[i].content =
                                    Strip(SubSpaces(SubLeaders(JoinSpans(
                                        fitz_page.blocks[b.src.index].spans),
                                      1), 1))
                /\ p > doc.plumber_pages =>
                     /\ \A i \in 1..Len(layout[p]) :
                          layout[p][i].type # "table_placeholder"
                     /\ {layout[p][i].src.index :
                            i \in {j \in 1..Len(layout[p]) :
                                      layout[p][j].type = "text"}}
                           = KeptText(fitz_page, <<>>)

\* a parse returned both pages of a document whose second page, with two
\* table candidates, is missing from the table detector: the page holds
\* its text blocks and no table
C29_Witness ==
    /\ pc = "returned"
    /\ Len(doc.pages) = 2
    /\ doc.plumber_pages = 1
    /\ Len(PageAt(2).tables) = 2
    /\ Len(result.pages) = 2
    /\ result.pages[2].page_number = 2
    /\ result.pages[2].blocks # <<>>
    /\ \A i \in 1..Len(result.pages[2].blocks) :
         result.pages[2].blocks[i].type = "text"

\* the last progress step written
LastProgress == progress_log[Len(progress_log)]

\* C30: a failure of the embeddings step is recorded as 'embeddings_failed'
\* and the agent-pipeline step still runs; when every other step
\* succeeds the pipeline ends with progress step 'completed' and status
\* 'ready / completed'.  A failure of any other step ends with progress
\* step 'failed' and status 'failed', and nothing is written after it.
C30_EmbeddingsFailureNonFatal ==
    /\ "embeddings" \in failed_steps =>
          \E i \in 1..Len(progress_log) :
             /\ progress_log[i] = "embeddings_failed"
             /\ i < Len(progress_log)
             /\ progress_log[i + 1] = "agent_pipeline"
    /\ (task_pc = "done" /\ failed_steps \subseteq {"embeddings"}) =>
          /\ LastProgress = "completed"
          /\ parsed_record = [status |-> "ready / completed",
                              progress |-> "completed"]
    /\ (task_pc = "done" /\ ~(failed_steps \subseteq {"embeddings"})) =>
          /\ LastProgress = "failed"
          /\ parsed_record = [status |-> "failed", progress |-> "failed"]
    /\ \A i \in 1..(Len(progress_log) - 1) : progress_log[i] # "failed"

====
